---- MODULE Spec2Model ----
(***************************************************************************)
(* A model of the health-readout pipeline of src/tools/health.py:          *)
(* text parsing (_as_float, _parse_bp), the trend analyzer, the six domain *)
(* scorers, and _build_readout, which assembles the six cards, the overall *)
(* score and status, and the ranked insights.                              *)
(*                                                                         *)
(* Conventions.                                                            *)
(*  - Python's None is the empty tuple <<>>; a present value v is <<v>>.   *)
(*    Value(x) unwraps it.                                                 *)
(*  - A Python float is an exact rational [n |-> numerator, d |-> denom.]  *)
(*    with d > 0, kept in lowest terms.  NaN and the infinities are not    *)
(*    modelled.                                                            *)
(*  - A text is a tuple of one-character strings.                          *)
(*  - chartdate / charttime are integers; a larger integer is later (the   *)
(*    source compares the ISO strings, which order the same way).          *)
(*  - Of a card, the fields id, score, status, recorded_at, trend, insight *)
(*    and source are modelled; title, value, unit, trend_detail and the    *)
(*    secondary_* fields are display strings that no later step reads.     *)
(*  - A database table is a set of rows; rows of one metric have distinct  *)
(*    timestamps, so the ORDER BY of the queries is a total order.         *)
(***************************************************************************)
EXTENDS Integers, Sequences, FiniteSets, TLC

VARIABLES subject_id, omr, labs, vitals, readout, call, ret,
          database, hadm_id, selected, pc, invocations

\* the state of a request to summarize_patient: the tables it reads, the
\* hadm_id asked for, the admission selected with its warning, and the
\* position in the function; and the state of invocations that run side by
\* side
request_vars == <<database, hadm_id, selected, pc, invocations>>

vars == <<subject_id, omr, labs, vitals, readout, call, ret,
          database, hadm_id, selected, pc, invocations>>

(***************************************************************************)
(* None and optional values                                                *)
(***************************************************************************)
None == <<>>

Some(v) == <<v>>

Value(x) == x[1]

\* F applied to v: binds an intermediate result of the code to a name
With(v, F(_)) == F(v)

(***************************************************************************)
(* Floats as exact rationals                                               *)
(***************************************************************************)
Abs(i) == IF i < 0 THEN -i ELSE i

RECURSIVE Gcd(_, _)
Gcd(a, b) == IF b = 0 THEN a ELSE Gcd(b, a % b)

\* the rational n/d (d # 0) in lowest terms with a positive denominator
Rat(n, d) ==
    With(Gcd(Abs(n), Abs(d)), LAMBDA g :
        IF d < 0 THEN [n |-> (-n) \div g, d |-> (-d) \div g]
        ELSE [n |-> n \div g, d |-> d \div g])

\* float(i) of an integer i
R(i) == [n |-> i, d |-> 1]

Lt(a, b) == a.n * b.d < b.n * a.d

Le(a, b) == a.n * b.d <= b.n * a.d

Gt(a, b) == Lt(b, a)

Ge(a, b) == Le(b, a)

Sub(a, b) == Rat(a.n * b.d - b.n * a.d, a.d * b.d)

Mul(a, b) == Rat(a.n * b.n, a.d * b.d)

Div(a, b) == Rat(a.n * b.d, a.d * b.n)

AbsR(a) == [n |-> Abs(a.n), d |-> a.d]

\* round() with a tie going up
round_half_up(n, d) == IF 2 * (n % d) < d THEN n \div d ELSE (n \div d) + 1

\* Python's round() of the exact quotient n/d (n >= 0, d > 0): to the
\* nearest integer, a tie going to the even neighbour
round(n, d) ==
    IF 2 * (n % d) < d THEN n \div d
    ELSE IF 2 * (n % d) > d THEN (n \div d) + 1
    ELSE IF (n \div d) % 2 = 0 THEN n \div d ELSE (n \div d) + 1

RECURSIVE SumSeq(_)
SumSeq(s) == IF s = <<>> THEN 0 ELSE Head(s) + SumSeq(Tail(s))

\* the sum taken for the mean
round_sum(xs) == SumSeq(xs)

\* round(mean(xs)) of a non-empty sequence of non-negative integers
round_mean(xs) == round(SumSeq(xs), Len(xs))

(***************************************************************************)
(* Texts and the two regular-expression parsers                            *)
(***************************************************************************)
Digits == <<"0", "1", "2", "3", "4", "5", "6", "7", "8", "9">>

IsDigit(c) == \E i \in 1..10 : Digits[i] = c

DigitVal(c) == (CHOOSE i \in 1..10 : Digits[i] = c) - 1

\* the characters Python's \s and str.strip() treat as white space
IsSpace(c) == c \in {" ", "\t", "\n", "\r"}

RECURSIVE Pow10(_)
Pow10(k) == IF k = 0 THEN 1 ELSE 10 * Pow10(k - 1)

\* the integer written by the digits t[i..j]
RECURSIVE DigitsVal(_, _, _)
DigitsVal(t, i, j) ==
    IF j < i THEN 0 ELSE 10 * DigitsVal(t, i, j - 1) + DigitVal(t[j])

\* the first position >= i of t that holds no digit (Len(t)+1 if none)
RECURSIVE DigitsEnd(_, _)
DigitsEnd(t, i) ==
    IF i <= Len(t) /\ IsDigit(t[i]) THEN DigitsEnd(t, i + 1) ELSE i

\* the first position >= i of t that holds no white space
RECURSIVE SkipSpace(_, _)
SkipSpace(t, i) ==
    IF i <= Len(t) /\ IsSpace(t[i]) THEN SkipSpace(t, i + 1) ELSE i

\* str.strip()
RECURSIVE strip(_)
strip(t) ==
    IF t = <<>> THEN t
    ELSE IF IsSpace(t[1]) THEN strip(Tail(t))
    ELSE IF IsSpace(t[Len(t)]) THEN strip(SubSeq(t, 1, Len(t) - 1))
    ELSE t

\* text.replace(",", "")
remove_commas(t) == SelectSeq(t, LAMBDA c : c # ",")

\* whether -?\d+(?:\.\d+)? matches at position i of t
NumberAt(t, i) ==
    \/ IsDigit(t[i])
    \/ t[i] = "-" /\ i < Len(t) /\ IsDigit(t[i + 1])

\* float(match.group(0)) for the match of -?\d+(?:\.\d+)? at position i
NumberValue(t, i) ==
    With(IF t[i] = "-" THEN i + 1 ELSE i, LAMBDA a :
    With(DigitsEnd(t, a), LAMBDA b :
    With(IF b < Len(t) /\ t[b] = "." /\ IsDigit(t[b + 1])
         THEN DigitsEnd(t, b + 1) ELSE b, LAMBDA e :
    With(IF e > b
         THEN DigitsVal(t, a, b - 1) * Pow10(e - b - 1) + DigitsVal(t, b + 1, e - 1)
         ELSE DigitsVal(t, a, b - 1), LAMBDA num :
        Rat(IF t[i] = "-" THEN -num ELSE num,
            IF e > b THEN Pow10(e - b - 1) ELSE 1)))))

\* _as_float of an optional text (a result_value)
_as_float_text(value) ==
    IF value = None THEN None
    ELSE With(strip(Value(value)), LAMBDA text :
         IF text = <<>> THEN None
         ELSE With(remove_commas(text), LAMBDA t :
              With({i \in 1..Len(t) : NumberAt(t, i)}, LAMBDA hits :
                  IF hits = {} THEN None
                  ELSE Some(NumberValue(t, CHOOSE i \in hits : \A j \in hits : i <= j)))))

\* _as_float of an optional number (a valuenum): float(value)
_as_float(value) == IF value = None THEN None ELSE value

\* where the second group of (\d{2,3})\s*/\s*(\d{2,3}) starts when the first
\* group ends just before position j of t, or 0 when no "/" follows
BpSecondStart(t, j) ==
    With(SkipSpace(t, j), LAMBDA s :
        IF s <= Len(t) /\ t[s] = "/" THEN SkipSpace(t, s + 1) ELSE 0)

\* the number of digits the second group takes there (greedy, 2 or 3), or 0
\* when fewer than two digits follow
BpSecondWidth(t, j) ==
    With(BpSecondStart(t, j), LAMBDA a :
    With(IF a = 0 THEN 0 ELSE DigitsEnd(t, a) - a, LAMBDA n :
        IF n >= 3 THEN 3 ELSE IF n = 2 THEN 2 ELSE 0))

\* the widths k of the first group with which the pattern matches at
\* position i of t
BpWidths(t, i) ==
    {k \in {2, 3} : DigitsEnd(t, i) - i >= k /\ BpSecondWidth(t, i + k) # 0}

\* re.search: the leftmost position that matches, the first group greedy
_parse_bp(value) ==
    IF value = None THEN <<None, None>>
    ELSE With(Value(value), LAMBDA t :
         With({i \in 1..Len(t) : BpWidths(t, i) # {}}, LAMBDA hits :
             IF hits = {} THEN <<None, None>>
             ELSE With(CHOOSE h \in hits : \A j \in hits : h <= j, LAMBDA i :
                  With(IF 3 \in BpWidths(t, i) THEN 3 ELSE 2, LAMBDA k :
                  With(BpSecondStart(t, i + k), LAMBDA a :
                  With(BpSecondWidth(t, i + k), LAMBDA w :
                      <<Some(R(DigitsVal(t, i, i + k - 1))),
                        Some(R(DigitsVal(t, a, a + w - 1)))>>))))))

(***************************************************************************)
(* Status thresholds and the trend analyzer                                *)
(***************************************************************************)
\* the two thresholds taken as exclusive
_status_from_score_exclusive(score) ==
    IF score > 85 THEN "good"
    ELSE IF score > 65 THEN "needs-attention"
    ELSE "high-risk"

_status_from_score(score) ==
    IF score >= 85 THEN "good"
    ELSE IF score >= 65 THEN "needs-attention"
    ELSE "high-risk"

\* _trend_direction with the stable band open at its ends
_trend_direction_band_exclusive(latest, previous, stable_band) ==
    IF latest = None \/ previous = None THEN <<"no-trend", None>>
    ELSE With(Sub(Value(latest), Value(previous)), LAMBDA delta :
             IF Lt(AbsR(delta), stable_band) THEN <<"stable", Some(delta)>>
             ELSE <<(IF Gt(delta, R(0)) THEN "up" ELSE "down"), Some(delta)>>)

\* <<direction, delta>>
_trend_direction(latest, previous, stable_band) ==
    IF latest = None \/ previous = None THEN <<"no-trend", None>>
    ELSE With(Sub(Value(latest), Value(previous)), LAMBDA delta :
             IF Le(AbsR(delta), stable_band) THEN <<"stable", Some(delta)>>
             ELSE <<(IF Gt(delta, R(0)) THEN "up" ELSE "down"), Some(delta)>>)

(***************************************************************************)
(* The six domain scorers: <<score, status, insight>>                      *)
(***************************************************************************)
\* the mildly-low rule tried before the mildly-elevated-systolic rule
_score_bp_low_rule_first(systolic, diastolic) ==
    IF systolic = None \/ diastolic = None
    THEN <<50, "unknown", "No recent blood pressure data.">>
    ELSE LET s == Value(systolic)
             d == Value(diastolic)
         IN  IF Ge(s, R(180)) \/ Ge(d, R(120))
             THEN <<25, "high-risk", "Severely elevated blood pressure.">>
             ELSE IF Lt(s, R(80)) \/ Lt(d, R(50))
             THEN <<35, "high-risk", "Blood pressure is in a low range.">>
             ELSE IF Ge(s, R(140)) \/ Ge(d, R(90))
             THEN <<55, "high-risk", "Blood pressure is above stage-2 range.">>
             ELSE IF Ge(s, R(130)) \/ Ge(d, R(80))
             THEN <<70, "needs-attention", "Blood pressure is in stage-1 range.">>
             ELSE IF Lt(s, R(90)) \/ Lt(d, R(60))
             THEN <<65, "needs-attention", "Blood pressure is mildly low.">>
             ELSE IF Ge(s, R(120)) /\ Lt(d, R(80))
             THEN <<82, "needs-attention", "Systolic pressure is mildly elevated.">>
             ELSE <<94, "good", "Blood pressure is in the target range.">>

\* the stage-1 rule with its diastolic bound taken as exclusive
_score_bp_stage1_exclusive(systolic, diastolic) ==
    IF systolic = None \/ diastolic = None
    THEN <<50, "unknown", "No recent blood pressure data.">>
    ELSE LET s == Value(systolic)
             d == Value(diastolic)
         IN  IF Ge(s, R(180)) \/ Ge(d, R(120))
             THEN <<25, "high-risk", "Severely elevated blood pressure.">>
             ELSE IF Lt(s, R(80)) \/ Lt(d, R(50))
             THEN <<35, "high-risk", "Blood pressure is in a low range.">>
             ELSE IF Ge(s, R(140)) \/ Ge(d, R(90))
             THEN <<55, "high-risk", "Blood pressure is above stage-2 range.">>
             ELSE IF Ge(s, R(130)) \/ Gt(d, R(80))
             THEN <<70, "needs-attention", "Blood pressure is in stage-1 range.">>
             ELSE IF Ge(s, R(120)) /\ Lt(d, R(80))
             THEN <<82, "needs-attention", "Systolic pressure is mildly elevated.">>
             ELSE IF Lt(s, R(90)) \/ Lt(d, R(60))
             THEN <<65, "needs-attention", "Blood pressure is mildly low.">>
             ELSE <<94, "good", "Blood pressure is in the target range.">>

\* _score_bp with the same no-data insight for every domain
_score_bp_generic_no_data(systolic, diastolic) ==
    IF systolic = None \/ diastolic = None
    THEN <<50, "unknown", "No recent data.">>
    ELSE LET s == Value(systolic)
             d == Value(diastolic)
         IN  IF Ge(s, R(180)) \/ Ge(d, R(120))
             THEN <<25, "high-risk", "Severely elevated blood pressure.">>
             ELSE IF Lt(s, R(80)) \/ Lt(d, R(50))
             THEN <<35, "high-risk", "Blood pressure is in a low range.">>
             ELSE IF Ge(s, R(140)) \/ Ge(d, R(90))
             THEN <<55, "high-risk", "Blood pressure is above stage-2 range.">>
             ELSE IF Ge(s, R(130)) \/ Ge(d, R(80))
             THEN <<70, "needs-attention", "Blood pressure is in stage-1 range.">>
             ELSE IF Ge(s, R(120)) /\ Lt(d, R(80))
             THEN <<82, "needs-attention", "Systolic pressure is mildly elevated.">>
             ELSE IF Lt(s, R(90)) \/ Lt(d, R(60))
             THEN <<65, "needs-attention", "Blood pressure is mildly low.">>
             ELSE <<94, "good", "Blood pressure is in the target range.">>

\* _score_bp with the mildly-low result one point lower
_score_bp_mildly_low_64(systolic, diastolic) ==
    IF systolic = None \/ diastolic = None
    THEN <<50, "unknown", "No recent blood pressure data.">>
    ELSE LET s == Value(systolic)
             d == Value(diastolic)
         IN  IF Ge(s, R(180)) \/ Ge(d, R(120))
             THEN <<25, "high-risk", "Severely elevated blood pressure.">>
             ELSE IF Lt(s, R(80)) \/ Lt(d, R(50))
             THEN <<35, "high-risk", "Blood pressure is in a low range.">>
             ELSE IF Ge(s, R(140)) \/ Ge(d, R(90))
             THEN <<55, "high-risk", "Blood pressure is above stage-2 range.">>
             ELSE IF Ge(s, R(130)) \/ Ge(d, R(80))
             THEN <<70, "needs-attention", "Blood pressure is in stage-1 range.">>
             ELSE IF Ge(s, R(120)) /\ Lt(d, R(80))
             THEN <<82, "needs-attention", "Systolic pressure is mildly elevated.">>
             ELSE IF Lt(s, R(90)) \/ Lt(d, R(60))
             THEN <<64, "needs-attention", "Blood pressure is mildly low.">>
             ELSE <<94, "good", "Blood pressure is in the target range.">>

_score_bp(systolic, diastolic) ==
    IF systolic = None \/ diastolic = None
    THEN <<50, "unknown", "No recent blood pressure data.">>
    ELSE LET s == Value(systolic)
             d == Value(diastolic)
         IN  IF Ge(s, R(180)) \/ Ge(d, R(120))
             THEN <<25, "high-risk", "Severely elevated blood pressure.">>
             ELSE IF Lt(s, R(80)) \/ Lt(d, R(50))
             THEN <<35, "high-risk", "Blood pressure is in a low range.">>
             ELSE IF Ge(s, R(140)) \/ Ge(d, R(90))
             THEN <<55, "high-risk", "Blood pressure is above stage-2 range.">>
             ELSE IF Ge(s, R(130)) \/ Ge(d, R(80))
             THEN <<70, "needs-attention", "Blood pressure is in stage-1 range.">>
             ELSE IF Ge(s, R(120)) /\ Lt(d, R(80))
             THEN <<82, "needs-attention", "Systolic pressure is mildly elevated.">>
             ELSE IF Lt(s, R(90)) \/ Lt(d, R(60))
             THEN <<65, "needs-attention", "Blood pressure is mildly low.">>
             ELSE <<94, "good", "Blood pressure is in the target range.">>

\* _score_bmi with the healthy band closed at 25
_score_bmi_healthy_inclusive(bmi) ==
    IF bmi = None THEN <<50, "unknown", "No recent BMI data.">>
    ELSE IF Lt(Value(bmi), R(16))
    THEN <<40, "high-risk", "BMI indicates severe underweight.">>
    ELSE IF Lt(Value(bmi), Rat(37, 2))
    THEN <<64, "needs-attention", "BMI is below the healthy range.">>
    ELSE IF Le(Value(bmi), R(25))
    THEN <<94, "good", "BMI is in the healthy range.">>
    ELSE IF Lt(Value(bmi), R(30))
    THEN <<78, "needs-attention", "BMI is in the overweight range.">>
    ELSE IF Lt(Value(bmi), R(35))
    THEN <<60, "high-risk", "BMI is in obesity class I.">>
    ELSE IF Lt(Value(bmi), R(40))
    THEN <<50, "high-risk", "BMI is in obesity class II.">>
    ELSE <<40, "high-risk", "BMI is in obesity class III.">>

_score_bmi(bmi) ==
    IF bmi = None THEN <<50, "unknown", "No recent BMI data.">>
    ELSE LET b == Value(bmi)
         IN  IF Lt(b, R(16))
             THEN <<40, "high-risk", "BMI indicates severe underweight.">>
             ELSE IF Lt(b, Rat(185, 10))
             THEN <<64, "needs-attention", "BMI is below the healthy range.">>
             ELSE IF Lt(b, R(25))
             THEN <<94, "good", "BMI is in the healthy range.">>
             ELSE IF Lt(b, R(30))
             THEN <<78, "needs-attention", "BMI is in the overweight range.">>
             ELSE IF Lt(b, R(35))
             THEN <<60, "high-risk", "BMI is in obesity class I.">>
             ELSE IF Lt(b, R(40))
             THEN <<50, "high-risk", "BMI is in obesity class II.">>
             ELSE <<40, "high-risk", "BMI is in obesity class III.">>

\* _score_glucose scoring the glucose value whenever there is one
_score_glucose_prefers_glucose(a1c, glucose) ==
    IF glucose # None
    THEN IF Lt(Value(glucose), R(70))
         THEN <<40, "high-risk", "Glucose is in hypoglycemic range.", "glucose">>
         ELSE IF Le(Value(glucose), R(140))
         THEN <<88, "good", "Glucose is in a reasonable range.", "glucose">>
         ELSE IF Le(Value(glucose), R(199))
         THEN <<70, "needs-attention", "Glucose is elevated.", "glucose">>
         ELSE <<48, "high-risk", "Glucose is markedly elevated.", "glucose">>
    ELSE IF a1c = None
    THEN <<50, "unknown", "No recent glucose markers.", "glucose">>
    ELSE IF Lt(Value(a1c), Rat(57, 10))
    THEN <<94, "good", "A1c is in non-diabetic range.", "a1c">>
    ELSE IF Lt(Value(a1c), Rat(65, 10))
    THEN <<78, "needs-attention", "A1c is in prediabetes range.", "a1c">>
    ELSE IF Lt(Value(a1c), R(8))
    THEN <<60, "high-risk", "A1c is above diabetic target range.", "a1c">>
    ELSE <<45, "high-risk", "A1c is markedly elevated.", "a1c">>

\* _score_glucose with the A1c bands closed at their upper ends
_score_glucose_a1c_inclusive(a1c, glucose) ==
    IF a1c # None
    THEN IF Le(Value(a1c), Rat(57, 10))
         THEN <<94, "good", "A1c is in non-diabetic range.", "a1c">>
         ELSE IF Le(Value(a1c), Rat(65, 10))
         THEN <<78, "needs-attention", "A1c is in prediabetes range.", "a1c">>
         ELSE IF Le(Value(a1c), R(8))
         THEN <<60, "high-risk", "A1c is above diabetic target range.", "a1c">>
         ELSE <<45, "high-risk", "A1c is markedly elevated.", "a1c">>
    ELSE IF glucose = None
    THEN <<50, "unknown", "No recent glucose markers.", "glucose">>
    ELSE IF Lt(Value(glucose), R(70))
    THEN <<40, "high-risk", "Glucose is in hypoglycemic range.", "glucose">>
    ELSE IF Le(Value(glucose), R(140))
    THEN <<88, "good", "Glucose is in a reasonable range.", "glucose">>
    ELSE IF Le(Value(glucose), R(199))
    THEN <<70, "needs-attention", "Glucose is elevated.", "glucose">>
    ELSE <<48, "high-risk", "Glucose is markedly elevated.", "glucose">>

\* <<score, status, insight, basis>>
_score_glucose(a1c, glucose) ==
    IF a1c # None
    THEN LET a == Value(a1c)
         IN  IF Lt(a, Rat(57, 10))
             THEN <<94, "good", "A1c is in non-diabetic range.", "a1c">>
             ELSE IF Lt(a, Rat(65, 10))
             THEN <<78, "needs-attention", "A1c is in prediabetes range.", "a1c">>
             ELSE IF Lt(a, R(8))
             THEN <<60, "high-risk", "A1c is above diabetic target range.", "a1c">>
             ELSE <<45, "high-risk", "A1c is markedly elevated.", "a1c">>
    ELSE IF glucose = None
    THEN <<50, "unknown", "No recent glucose markers.", "glucose">>
    ELSE LET g == Value(glucose)
         IN  IF Lt(g, R(70))
             THEN <<40, "high-risk", "Glucose is in hypoglycemic range.", "glucose">>
             ELSE IF Le(g, R(140))
             THEN <<88, "good", "Glucose is in a reasonable range.", "glucose">>
             ELSE IF Le(g, R(199))
             THEN <<70, "needs-attention", "Glucose is elevated.", "glucose">>
             ELSE <<48, "high-risk", "Glucose is markedly elevated.", "glucose">>

Max(a, b) == IF a >= b THEN a ELSE b

Min(a, b) == IF a <= b THEN a ELSE b

\* the BUN adjustment applied before creatinine is looked at
_score_kidney_bun_first(creatinine, bun) ==
    LET elevated == bun # None /\ Gt(Value(bun), R(35))
    IN  IF creatinine = None
        THEN IF elevated
             THEN <<42, "needs-attention", "BUN is elevated.">>
             ELSE <<50, "unknown", "No recent kidney markers.">>
        ELSE LET c == Value(creatinine)
                 base == IF Le(c, Rat(13, 10))
                         THEN <<90, "good", "Creatinine is within the expected range.">>
                         ELSE IF Le(c, R(2))
                         THEN <<72, "needs-attention", "Creatinine is mildly elevated.">>
                         ELSE <<50, "high-risk", "Creatinine is significantly elevated.">>
             IN  IF elevated
                 THEN IF base[2] = "good"
                      THEN <<Max(35, base[1] - 8), "needs-attention",
                             "Creatinine is normal but BUN is elevated.">>
                      ELSE <<Max(35, base[1] - 8), base[2], base[3]>>
                 ELSE base

\* _score_kidney lowering the score already at a BUN of 35
_score_kidney_bun_inclusive(creatinine, bun) ==
    IF creatinine = None THEN <<50, "unknown", "No recent kidney markers.">>
    ELSE With(IF Le(Value(creatinine), Rat(13, 10))
              THEN <<90, "good", "Creatinine is within the expected range.">>
              ELSE IF Le(Value(creatinine), R(2))
              THEN <<72, "needs-attention", "Creatinine is mildly elevated.">>
              ELSE <<50, "high-risk", "Creatinine is significantly elevated.">>,
              LAMBDA base :
             IF bun # None /\ Ge(Value(bun), R(35))
             THEN IF base[2] = "good"
                  THEN <<Max(35, base[1] - 8), "needs-attention",
                         "Creatinine is normal but BUN is elevated.">>
                  ELSE <<Max(35, base[1] - 8), base[2], base[3]>>
             ELSE base)

_score_kidney(creatinine, bun) ==
    IF creatinine = None THEN <<50, "unknown", "No recent kidney markers.">>
    ELSE With(IF Le(Value(creatinine), Rat(13, 10))
              THEN <<90, "good", "Creatinine is within the expected range.">>
              ELSE IF Le(Value(creatinine), R(2))
              THEN <<72, "needs-attention", "Creatinine is mildly elevated.">>
              ELSE <<50, "high-risk", "Creatinine is significantly elevated.">>,
              LAMBDA base :
             IF bun # None /\ Gt(Value(bun), R(35))
             THEN IF base[2] = "good"
                  THEN <<Max(35, base[1] - 8), "needs-attention",
                         "Creatinine is normal but BUN is elevated.">>
                  ELSE <<Max(35, base[1] - 8), base[2], base[3]>>
             ELSE base)

\* a missing saturation scored as a low one
_score_spo2_missing_is_low(spo2) ==
    IF spo2 = None \/ Lt(Value(spo2), R(90))
    THEN <<45, "high-risk", "Oxygen saturation is low.">>
    ELSE IF Ge(Value(spo2), R(95))
    THEN <<92, "good", "Oxygen saturation is in the target range.">>
    ELSE <<70, "needs-attention", "Oxygen saturation is mildly low.">>

\* _score_spo2 with the target range open at 95
_score_spo2_target_exclusive(spo2) ==
    IF spo2 = None
    THEN <<50, "unknown", "No recent oxygen saturation values.">>
    ELSE IF Gt(Value(spo2), R(95))
    THEN <<92, "good", "Oxygen saturation is in the target range.">>
    ELSE IF Ge(Value(spo2), R(90))
    THEN <<70, "needs-attention", "Oxygen saturation is mildly low.">>
    ELSE <<45, "high-risk", "Oxygen saturation is low.">>

_score_spo2(spo2) ==
    IF spo2 = None
    THEN <<50, "unknown", "No recent oxygen saturation values.">>
    ELSE IF Ge(Value(spo2), R(95))
    THEN <<92, "good", "Oxygen saturation is in the target range.">>
    ELSE IF Ge(Value(spo2), R(90))
    THEN <<70, "needs-attention", "Oxygen saturation is mildly low.">>
    ELSE <<45, "high-risk", "Oxygen saturation is low.">>

\* the components list of _hematology_component_scores: <<name, sub-score,
\* detail>> for each value that is present, in the order hemoglobin, WBC,
\* platelets
hematology_components(hemoglobin, wbc, platelets) ==
    (IF hemoglobin = None THEN <<>>
     ELSE LET h == Value(hemoglobin)
          IN  IF Lt(h, R(10)) THEN << <<"Hemoglobin", 45, "low">> >>
              ELSE IF Lt(h, R(12)) THEN << <<"Hemoglobin", 70, "mildly low">> >>
              ELSE IF Gt(h, R(18)) THEN << <<"Hemoglobin", 70, "high">> >>
              ELSE << <<"Hemoglobin", 90, "normal">> >>)
    \o
    (IF wbc = None THEN <<>>
     ELSE LET w == Value(wbc)
          IN  IF Lt(w, R(3)) \/ Gt(w, R(15)) THEN << <<"WBC", 45, "abnormal">> >>
              ELSE IF Lt(w, R(4)) \/ Gt(w, R(11))
              THEN << <<"WBC", 70, "outside reference">> >>
              ELSE << <<"WBC", 90, "normal">> >>)
    \o
    (IF platelets = None THEN <<>>
     ELSE LET p == Value(platelets)
          IN  IF Lt(p, R(100)) \/ Gt(p, R(600))
              THEN << <<"Platelets", 45, "abnormal">> >>
              ELSE IF Lt(p, R(150)) \/ Gt(p, R(450))
              THEN << <<"Platelets", 70, "outside reference">> >>
              ELSE << <<"Platelets", 90, "normal">> >>)

\* " / ".join(parts) of a non-empty sequence of strings
RECURSIVE join_slash(_)
join_slash(parts) ==
    IF Len(parts) = 1 THEN parts[1]
    ELSE parts[1] \o " / " \o join_slash(Tail(parts))

\* _hematology_component_scores deciding the status from the mean
_hematology_status_from_mean(hemoglobin, wbc, platelets) ==
    With(hematology_components(hemoglobin, wbc, platelets), LAMBDA components :
    With([i \in 1..Len(components) |-> components[i][2]], LAMBDA subs :
    With(SelectSeq(components, LAMBDA c : c[2] < 85 /\ c[3] # "normal"), LAMBDA abn :
        IF components = <<>>
        THEN <<50, "unknown", "No recent hematology markers.">>
        ELSE <<round_mean(subs),
               _status_from_score(round_mean(subs)),
               IF abn # <<>>
               THEN join_slash([i \in 1..Len(abn) |-> abn[i][1] \o " " \o abn[i][3]])
               ELSE "Hematology markers are in expected range.">>)))

_hematology_component_scores(hemoglobin, wbc, platelets) ==
    With(hematology_components(hemoglobin, wbc, platelets), LAMBDA components :
    With([i \in 1..Len(components) |-> components[i][2]], LAMBDA subs :
    With(SelectSeq(components, LAMBDA c : c[2] < 85 /\ c[3] # "normal"), LAMBDA abn :
        IF components = <<>>
        THEN <<50, "unknown", "No recent hematology markers.">>
        ELSE <<round_mean(subs),
               IF \E i \in 1..Len(subs) : subs[i] <= 50 THEN "high-risk"
               ELSE IF \E i \in 1..Len(subs) : subs[i] < 85 THEN "needs-attention"
               ELSE "good",
               IF abn # <<>>
               THEN join_slash([i \in 1..Len(abn) |-> abn[i][1] \o " " \o abn[i][3]])
               ELSE "Hematology markers are in expected range.">>)))

(***************************************************************************)
(* Histories: a mapping from a metric to its rows, newest first            *)
(***************************************************************************)
\* history.get(metric, [])
Get(history, metric) ==
    IF metric \in DOMAIN history THEN history[metric] ELSE <<>>

_latest(history, metric) ==
    With(Get(history, metric), LAMBDA rows :
        IF rows # <<>> THEN Some(rows[1]) ELSE None)

_previous(history, metric) ==
    With(Get(history, metric), LAMBDA rows :
        IF Len(rows) > 1 THEN Some(rows[2]) ELSE None)

\* _as_float(row["valuenum"]) if row else None
valuenum_of(row) == IF row # None THEN _as_float(Value(row).valuenum) ELSE None

\* _as_float(row["result_value"]) if row else None
result_value_of(row) ==
    IF row # None THEN _as_float_text(Value(row).result_value) ELSE None

\* max() of the timestamps that are present, None when none is
RECURSIVE max_time(_)
max_time(times) ==
    IF times = <<>> THEN None
    ELSE With(max_time(Tail(times)), LAMBDA rest :
             IF Head(times) = None THEN rest
             ELSE IF rest = None THEN Head(times)
             ELSE Some(Max(Value(Head(times)), Value(rest))))

(***************************************************************************)
(* _build_readout: the six cards                                           *)
(***************************************************************************)
Card(id, score, status, recorded_at, trend, insight, source) ==
    [id |-> id, score |-> score, status |-> status, recorded_at |-> recorded_at,
     trend |-> trend, insight |-> insight, source |-> source]

\* the blood-pressure reading taken from the bedside rows whenever both are
\* there
bp_reading_bedside_first(omr_h, vitals_h) ==
    With(_latest(omr_h, "Blood Pressure"), LAMBDA bp_latest :
    With(IF bp_latest # None THEN _parse_bp(Value(bp_latest).result_value)
         ELSE <<None, None>>, LAMBDA parsed :
    With(_latest(vitals_h, "systolic_bp"), LAMBDA vital_sys :
    With(_latest(vitals_h, "diastolic_bp"), LAMBDA vital_dia :
        IF vital_sys # None /\ vital_dia # None
        THEN [bp_sys |-> valuenum_of(vital_sys),
              bp_dia |-> valuenum_of(vital_dia),
              prev_sys |-> valuenum_of(_previous(vitals_h, "systolic_bp")),
              prev_dia |-> valuenum_of(_previous(vitals_h, "diastolic_bp")),
              recorded_at |-> Some(Max(Value(vital_sys).charttime,
                                       Value(vital_dia).charttime)),
              source |-> "ICU vitals"]
        ELSE With(_previous(omr_h, "Blood Pressure"), LAMBDA bp_prev :
             With(IF bp_prev # None THEN _parse_bp(Value(bp_prev).result_value)
                  ELSE <<None, None>>, LAMBDA parsed_prev :
                 [bp_sys |-> parsed[1],
                  bp_dia |-> parsed[2],
                  prev_sys |-> parsed_prev[1],
                  prev_dia |-> parsed_prev[2],
                  recorded_at |-> IF bp_latest # None
                                  THEN Some(Value(bp_latest).chartdate) ELSE None,
                  source |-> "OMR"]))))))

\* the reading whose previous values stay the outpatient ones when the
\* latest falls back to the bedside pair
bp_reading_outpatient_previous(omr_h, vitals_h) ==
    With(_latest(omr_h, "Blood Pressure"), LAMBDA bp_latest :
    With(IF bp_latest # None THEN _parse_bp(Value(bp_latest).result_value)
         ELSE <<None, None>>, LAMBDA parsed :
    With(_latest(vitals_h, "systolic_bp"), LAMBDA vital_sys :
    With(_latest(vitals_h, "diastolic_bp"), LAMBDA vital_dia :
    With(_previous(omr_h, "Blood Pressure"), LAMBDA bp_prev :
    With(IF bp_prev # None THEN _parse_bp(Value(bp_prev).result_value)
         ELSE <<None, None>>, LAMBDA parsed_prev :
        IF (parsed[1] = None \/ parsed[2] = None)
           /\ vital_sys # None /\ vital_dia # None
        THEN [bp_sys |-> valuenum_of(vital_sys),
              bp_dia |-> valuenum_of(vital_dia),
              prev_sys |-> parsed_prev[1],
              prev_dia |-> parsed_prev[2],
              recorded_at |-> Some(Max(Value(vital_sys).charttime,
                                       Value(vital_dia).charttime)),
              source |-> "ICU vitals"]
        ELSE [bp_sys |-> parsed[1],
              bp_dia |-> parsed[2],
              prev_sys |-> parsed_prev[1],
              prev_dia |-> parsed_prev[2],
              recorded_at |-> IF bp_latest # None
                              THEN Some(Value(bp_latest).chartdate) ELSE None,
              source |-> "OMR"]))))))

\* the blood-pressure reading that is scored: the latest outpatient reading,
\* or the bedside pair when that reading yields no systolic/diastolic pair
\* and both bedside metrics have a row
bp_reading(omr_h, vitals_h) ==
    With(_latest(omr_h, "Blood Pressure"), LAMBDA bp_latest :
    With(IF bp_latest # None THEN _parse_bp(Value(bp_latest).result_value)
         ELSE <<None, None>>, LAMBDA parsed :
    With(_latest(vitals_h, "systolic_bp"), LAMBDA vital_sys :
    With(_latest(vitals_h, "diastolic_bp"), LAMBDA vital_dia :
        IF (parsed[1] = None \/ parsed[2] = None)
           /\ vital_sys # None /\ vital_dia # None
        THEN [bp_sys |-> valuenum_of(vital_sys),
              bp_dia |-> valuenum_of(vital_dia),
              prev_sys |-> valuenum_of(_previous(vitals_h, "systolic_bp")),
              prev_dia |-> valuenum_of(_previous(vitals_h, "diastolic_bp")),
              recorded_at |-> Some(Max(Value(vital_sys).charttime,
                                       Value(vital_dia).charttime)),
              source |-> "ICU vitals"]
        ELSE With(_previous(omr_h, "Blood Pressure"), LAMBDA bp_prev :
             With(IF bp_prev # None THEN _parse_bp(Value(bp_prev).result_value)
                  ELSE <<None, None>>, LAMBDA parsed_prev :
                 [bp_sys |-> parsed[1],
                  bp_dia |-> parsed[2],
                  prev_sys |-> parsed_prev[1],
                  prev_dia |-> parsed_prev[2],
                  recorded_at |-> IF bp_latest # None
                                  THEN Some(Value(bp_latest).chartdate) ELSE None,
                  source |-> "OMR"]))))))

\* the trend with "down" decided before "up"
bp_trend_down_first(r) ==
    IF r.bp_sys # None /\ r.bp_dia # None /\ r.prev_sys # None /\ r.prev_dia # None
    THEN With(_trend_direction(r.bp_sys, r.prev_sys, R(3))[1], LAMBDA sys_dir :
         With(_trend_direction(r.bp_dia, r.prev_dia, R(3))[1], LAMBDA dia_dir :
             IF sys_dir = "stable" /\ dia_dir = "stable" THEN "stable"
             ELSE IF sys_dir = "down" \/ dia_dir = "down" THEN "down"
             ELSE "up"))
    ELSE "no-trend"

bp_trend(r) ==
    IF r.bp_sys # None /\ r.bp_dia # None /\ r.prev_sys # None /\ r.prev_dia # None
    THEN With(_trend_direction(r.bp_sys, r.prev_sys, R(3))[1], LAMBDA sys_dir :
         With(_trend_direction(r.bp_dia, r.prev_dia, R(3))[1], LAMBDA dia_dir :
             IF sys_dir = "stable" /\ dia_dir = "stable" THEN "stable"
             ELSE IF sys_dir = "up" \/ dia_dir = "up" THEN "up"
             ELSE "down"))
    ELSE "no-trend"

blood_pressure_card(omr_h, vitals_h) ==
    With(bp_reading(omr_h, vitals_h), LAMBDA r :
    With(_score_bp(r.bp_sys, r.bp_dia), LAMBDA scored :
        Card("blood_pressure", scored[1], scored[2], r.recorded_at, bp_trend(r),
             scored[3], r.source)))

\* the BMI taken from the BMI row only, never derived from weight and height
bmi_value_never_derived(omr_h) == result_value_of(_latest(omr_h, "BMI (kg/m2)"))

\* the BMI derived whenever the height is not zero
bmi_value_nonzero_height(omr_h) ==
    With(result_value_of(_latest(omr_h, "BMI (kg/m2)")), LAMBDA bmi_val :
    With(result_value_of(_latest(omr_h, "Weight (Lbs)")), LAMBDA weight_lbs :
    With(result_value_of(_latest(omr_h, "Height (Inches)")), LAMBDA height_inches :
        IF bmi_val = None /\ weight_lbs # None /\ height_inches # None
           /\ Value(height_inches) # R(0)
        THEN Some(Div(Mul(Value(weight_lbs), R(703)),
                      Mul(Value(height_inches), Value(height_inches))))
        ELSE bmi_val)))

\* the BMI that is scored: the recorded one, or weight*703/height^2
bmi_value(omr_h) ==
    With(result_value_of(_latest(omr_h, "BMI (kg/m2)")), LAMBDA bmi_val :
    With(result_value_of(_latest(omr_h, "Weight (Lbs)")), LAMBDA weight_lbs :
    With(result_value_of(_latest(omr_h, "Height (Inches)")), LAMBDA height_inches :
        IF bmi_val = None /\ weight_lbs # None /\ height_inches # None
           /\ Value(height_inches) # R(0) /\ Gt(Value(height_inches), R(0))
        THEN Some(Div(Mul(Value(weight_lbs), R(703)),
                      Mul(Value(height_inches), Value(height_inches))))
        ELSE bmi_val)))

body_composition_card(omr_h) ==
    With(_latest(omr_h, "BMI (kg/m2)"), LAMBDA bmi_latest :
    With(_latest(omr_h, "Weight (Lbs)"), LAMBDA weight_latest :
    With(bmi_value(omr_h), LAMBDA bmi_val :
    With(result_value_of(_previous(omr_h, "BMI (kg/m2)")), LAMBDA prev_bmi :
    With(_score_bmi(bmi_val), LAMBDA scored :
        Card("body_composition", scored[1], scored[2],
             IF bmi_latest # None THEN Some(Value(bmi_latest).chartdate)
             ELSE IF weight_latest # None THEN Some(Value(weight_latest).chartdate)
             ELSE None,
             _trend_direction(bmi_val, prev_bmi, Rat(3, 10))[1],
             scored[3], "OMR"))))))

glucose_control_card(labs_h) ==
    With(_latest(labs_h, "glucose"), LAMBDA glucose_latest :
    With(_latest(labs_h, "a1c"), LAMBDA a1c_latest :
    With(_score_glucose(valuenum_of(a1c_latest), valuenum_of(glucose_latest)),
         LAMBDA scored :
        Card("glucose_control", scored[1], scored[2],
             IF scored[4] = "a1c" /\ a1c_latest # None
             THEN Some(Value(a1c_latest).charttime)
             ELSE IF glucose_latest # None
             THEN Some(Value(glucose_latest).charttime)
             ELSE None,
             "no-trend", scored[3], "Labs"))))

kidney_function_card(labs_h) ==
    With(_latest(labs_h, "creatinine"), LAMBDA creatinine_latest :
    With(_score_kidney(valuenum_of(creatinine_latest),
                       valuenum_of(_latest(labs_h, "bun"))), LAMBDA scored :
        Card("kidney_function", scored[1], scored[2],
             IF creatinine_latest # None
             THEN Some(Value(creatinine_latest).charttime) ELSE None,
             "no-trend", scored[3], "Labs")))

oxygenation_card(vitals_h) ==
    With(_latest(vitals_h, "spo2"), LAMBDA spo2_latest :
    With(valuenum_of(spo2_latest), LAMBDA spo2_val :
    With(valuenum_of(_previous(vitals_h, "spo2")), LAMBDA spo2_prev :
    With(_score_spo2(spo2_val), LAMBDA scored :
        Card("oxygenation", scored[1], scored[2],
             IF spo2_latest # None THEN Some(Value(spo2_latest).charttime) ELSE None,
             _trend_direction(spo2_val, spo2_prev, R(1))[1],
             scored[3], "ICU vitals")))))

hematology_card(labs_h) ==
    With(_latest(labs_h, "hemoglobin"), LAMBDA hgb :
    With(_latest(labs_h, "wbc"), LAMBDA wbc :
    With(_latest(labs_h, "platelets"), LAMBDA plt :
    With(_hematology_component_scores(valuenum_of(hgb), valuenum_of(wbc),
                                      valuenum_of(plt)), LAMBDA scored :
        Card("hematology", scored[1], scored[2],
             max_time(<<IF hgb # None THEN Some(Value(hgb).charttime) ELSE None,
                        IF wbc # None THEN Some(Value(wbc).charttime) ELSE None,
                        IF plt # None THEN Some(Value(plt).charttime) ELSE None>>),
             "no-trend", scored[3], "Labs")))))

\* the cards list itself sorted by score, as an in-place sort would leave it
build_cards_sorted_in_place(omr_h, labs_h, vitals_h) ==
    LET cards == <<blood_pressure_card(omr_h, vitals_h),
                   body_composition_card(omr_h),
                   glucose_control_card(labs_h),
                   kidney_function_card(labs_h),
                   oxygenation_card(vitals_h),
                   hematology_card(labs_h)>>
        place[n \in 0..6] ==
            IF n = 0 THEN <<>>
            ELSE LET s == place[n - 1]
                     k == Cardinality({j \in 1..Len(s) : s[j].score <= cards[n].score})
                 IN  SubSeq(s, 1, k) \o <<cards[n]>> \o SubSeq(s, k + 1, Len(s))
    IN  place[6]

\* the cards list, in the order of the six cards.append calls
build_cards(omr_h, labs_h, vitals_h) ==
    <<blood_pressure_card(omr_h, vitals_h),
      body_composition_card(omr_h),
      glucose_control_card(labs_h),
      kidney_function_card(labs_h),
      oxygenation_card(vitals_h),
      hematology_card(labs_h)>>

(***************************************************************************)
(* _build_readout: the aggregation                                         *)
(***************************************************************************)
\* a mean that leaves the cards without data out
overall_score_skipping_unknown(cards) ==
    LET known == SelectSeq(cards, LAMBDA card : card.status # "unknown")
    IN  IF known # <<>>
        THEN round(SumSeq([i \in 1..Len(known) |-> known[i].score]), Len(known))
        ELSE 50

Scores(cards) == [i \in 1..Len(cards) |-> cards[i].score]

overall_score_of(cards) == IF cards # <<>> THEN round_mean(Scores(cards)) ELSE 50

\* list.sort(key=score) is stable: a card goes behind the cards already
\* placed whose score is not larger
RECURSIVE insert_by_score(_, _)
insert_by_score(sorted, card) ==
    IF sorted = <<>> THEN <<card>>
    ELSE IF Head(sorted).score <= card.score
    THEN <<Head(sorted)>> \o insert_by_score(Tail(sorted), card)
    ELSE <<card>> \o sorted

RECURSIVE sort_by_score(_)
sort_by_score(cards) ==
    IF cards = <<>> THEN <<>>
    ELSE insert_by_score(sort_by_score(SubSeq(cards, 1, Len(cards) - 1)),
                         cards[Len(cards)])

\* the concern cards left in card order
concern_cards_unsorted(cards) ==
    SelectSeq(cards, LAMBDA card : card.status \in {"needs-attention", "high-risk"})

\* the concern cards taken to be every card whose status is not good
concern_cards_not_good(cards) ==
    sort_by_score(SelectSeq(cards, LAMBDA card : card.status # "good"))

concern_cards_of(cards) ==
    sort_by_score(SelectSeq(cards,
        LAMBDA card : card.status \in {"needs-attention", "high-risk"}))

\* the insights of the four lowest cards, whatever their status
insights_of_lowest_cards(cards) ==
    With(sort_by_score(cards), LAMBDA sorted :
    With(SubSeq(sorted, 1, Min(4, Len(sorted))), LAMBDA first4 :
    With(SelectSeq(first4, LAMBDA card : card.insight # ""), LAMBDA kept :
        [i \in 1..Len(kept) |-> kept[i].insight])))

insights_of(cards) ==
    With(concern_cards_of(cards), LAMBDA concern_cards :
    With(SubSeq(concern_cards, 1, Min(4, Len(concern_cards))), LAMBDA first4 :
    With(SelectSeq(first4, LAMBDA card : card.insight # ""), LAMBDA kept :
        [i \in 1..Len(kept) |-> kept[i].insight])))

\* any(bool(rows) for rows in history.values())
has_rows(history) == \E metric \in DOMAIN history : history[metric] # <<>>

readout_of_cards(sid, cards, omr_h, labs_h, vitals_h) ==
    With(overall_score_of(cards), LAMBDA overall_score :
        [subject_id |-> sid,
         overall_score |-> overall_score,
         overall_status |-> _status_from_score(overall_score),
         cards |-> cards,
         insights |-> insights_of(cards),
         available_data |-> [has_omr |-> has_rows(omr_h),
                             has_labs |-> has_rows(labs_h),
                             has_icu_vitals |-> has_rows(vitals_h)]])

_build_readout(sid, omr_h, labs_h, vitals_h) ==
    readout_of_cards(sid, build_cards(omr_h, labs_h, vitals_h), omr_h, labs_h, vitals_h)

(***************************************************************************)
(* The histories the pipeline is run on                                    *)
(***************************************************************************)
SubjectIds == {10000032}

\* the number of rows the queries keep per metric (per_metric)
per_metric == 2

OmrRow(text, chartdate) ==
    [chartdate |-> chartdate, seq_num |-> 1, result_value |-> Some(text)]

\* the outpatient rows with the given texts, newest first and at most
\* per_metric of them: the newest is dated per_metric, the one before it
\* per_metric - 1
OmrRows(texts) ==
    [i \in 1..Min(per_metric, Len(texts)) |-> OmrRow(texts[i], per_metric + 1 - i)]

ValueRow(v, charttime) == [valuenum |-> Some(v), charttime |-> charttime]

\* the lab or bedside rows with the given values, newest first and at most
\* per_metric of them
ValueRows(vs) ==
    [i \in 1..Min(per_metric, Len(vs)) |-> ValueRow(vs[i], per_metric + 1 - i)]

\* a dict without any key
EmptyHistory == [metric \in {} |-> <<>>]

\* the history _query_omr_history builds: every result name is a key
omr_history(bp, bmi, weight, height) ==
    ("Blood Pressure" :> bp) @@ ("BMI (kg/m2)" :> bmi)
    @@ ("Weight (Lbs)" :> weight) @@ ("Height (Inches)" :> height)

\* the history _query_lab_history builds: every lab metric is a key
lab_history(glucose_panel, kidney_panel, heme_panel) ==
    ("creatinine" :> kidney_panel[1]) @@ ("bun" :> kidney_panel[2])
    @@ ("glucose" :> glucose_panel[2]) @@ ("a1c" :> glucose_panel[1])
    @@ ("hemoglobin" :> heme_panel[1]) @@ ("wbc" :> heme_panel[2])
    @@ ("platelets" :> heme_panel[3]) @@ ("sodium" :> <<>>)
    @@ ("potassium" :> <<>>)

\* the history _query_vital_history builds: every bedside metric is a key
vital_history(systolic, diastolic, spo2) ==
    ("heart_rate" :> <<>>) @@ ("systolic_bp" :> systolic)
    @@ ("diastolic_bp" :> diastolic) @@ ("resp_rate" :> <<>>)
    @@ ("spo2" :> spo2)

\* outpatient blood-pressure rows
BpSamples ==
    {<<>>,
     OmrRows(<<<<"1", "1", "8", "/", "7", "6">>>>),
     OmrRows(<<<<"1", "3", "5", "/", "8", "5">>, <<"1", "2", "0", "/", "8", "0">>>>),
     OmrRows(<<<<"1", "9", "0", "/", "1", "3", "0">>>>),
     OmrRows(<<<<" ", "1", "0", "0", " ", "/", " ", "5", "5">>>>),
     OmrRows(<<<<"p", "e", "n", "d", "i", "n", "g">>>>),
     OmrRows(<<<<"1", "2", "0", "/", "8">>, <<"1", "2", "2", "/", "7", "8">>>>),
     OmrRows(<<<<"1", "4", "0", "/", "7", "0">>, <<"1", "3", "0", "/", "8", "0">>>>),
     OmrRows(<<<<"1", "2", "0", "/", "8", "0">>, <<"1", "3", "0", "/", "8", "0">>>>),
     OmrRows(<<<<"1", "2", "3", "/", "8", "0">>, <<"1", "2", "0", "/", "8", "2">>>>)}

\* outpatient <<BMI rows, weight rows, height rows>>
BodySamples ==
    {<< <<>>, <<>>, <<>> >>,
     << OmrRows(<<<<"2", "2", ".", "0">>, <<"2", "2", ".", "1">>>>), <<>>, <<>> >>,
     << OmrRows(<<<<"2", "7", ".", "4">>>>), OmrRows(<<<<"1", "8", "0">>>>), OmrRows(<<<<"7", "0">>>>) >>,
     << <<>>, OmrRows(<<<<"2", "9", "0">>>>), OmrRows(<<<<"6", "5">>>>) >>,
     << OmrRows(<<<<"n", "/", "a">>>>), OmrRows(<<<<"1", "8", "0", " ", "l", "b", "s">>>>), OmrRows(<<<<"0">>>>) >>,
     << OmrRows(<<<<"n", "/", "a">>>>), OmrRows(<<<<"1", "8", "0">>>>), OmrRows(<<<<"7", "0">>>>) >>,
     << <<>>, OmrRows(<<<<"1", "8", "0">>>>), OmrRows(<<<<"-", "7", "0">>>>) >>}

\* lab <<A1c rows, glucose rows>>
GlucoseSamples ==
    {<< <<>>, <<>> >>,
     << ValueRows(<<Rat(55, 10)>>), ValueRows(<<R(150)>>) >>,
     << <<>>, ValueRows(<<R(150)>>) >>,
     << ValueRows(<<Rat(72, 10)>>), <<>> >>}

\* lab <<creatinine rows, BUN rows>>
KidneySamples ==
    {<< <<>>, <<>> >>,
     << ValueRows(<<R(1)>>), <<>> >>,
     << <<>>, ValueRows(<<R(40)>>) >>,
     << ValueRows(<<Rat(12, 10)>>), ValueRows(<<R(40)>>) >>,
     << ValueRows(<<Rat(24, 10)>>), ValueRows(<<R(40)>>) >>,
     << ValueRows(<<Rat(15, 10)>>), ValueRows(<<R(40)>>) >>}

\* lab <<hemoglobin rows, WBC rows, platelet rows>>
HemeSamples ==
    {<< <<>>, <<>>, <<>> >>,
     << ValueRows(<<R(11)>>), <<>>, <<>> >>,
     << ValueRows(<<R(14)>>), ValueRows(<<R(7)>>), ValueRows(<<R(250)>>) >>,
     << ValueRows(<<Rat(95, 10)>>), ValueRows(<<R(12)>>), <<>> >>}

\* bedside <<systolic rows, diastolic rows>>
VitalBpSamples ==
    {<< <<>>, <<>> >>,
     << ValueRows(<<R(85), R(84)>>), ValueRows(<<R(55)>>) >>,
     << ValueRows(<<R(150)>>), <<>> >>,
     << ValueRows(<<R(150), R(140)>>), ValueRows(<<R(90), R(95)>>) >>}

\* bedside SpO2 rows
Spo2Samples ==
    {<<>>,
     ValueRows(<<R(97), R(93)>>),
     ValueRows(<<R(93)>>),
     ValueRows(<<R(88)>>)}

OmrHistories ==
    {omr_history(bp, body[1], body[2], body[3]) :
        bp \in BpSamples, body \in BodySamples} \cup {EmptyHistory}

LabHistories ==
    {lab_history(g, k, h) :
        g \in GlucoseSamples, k \in KidneySamples, h \in HemeSamples}
    \cup {EmptyHistory}

VitalHistories ==
    {vital_history(bp[1], bp[2], s) : bp \in VitalBpSamples, s \in Spo2Samples}
    \cup {EmptyHistory}

\* no request to summarize_patient and no side-by-side invocations
NoRequest ==
    /\ database = None
    /\ hadm_id = None
    /\ selected = None
    /\ pc = "none"
    /\ invocations = <<>>

(***************************************************************************)
(* The pipeline as a state machine: a request holds its three histories,   *)
(* and BuildReadout is the one call of _build_readout on them.             *)
(***************************************************************************)
Init ==
    /\ subject_id \in SubjectIds
    /\ omr \in OmrHistories
    /\ labs \in LabHistories
    /\ vitals \in VitalHistories
    /\ readout = None
    /\ call = None
    /\ ret = None
    /\ NoRequest

BuildReadout ==
    /\ readout = None
    /\ call = None
    /\ readout' = Some(_build_readout(subject_id, omr, labs, vitals))
    /\ UNCHANGED <<subject_id, omr, labs, vitals, call, ret>>
    /\ UNCHANGED request_vars

Next == BuildReadout

Spec == Init /\ [][Next]_vars

(***************************************************************************)
(* The domain scorers called on their own: a call holds the function and   *)
(* its arguments, the action applies the function to them.                 *)
(***************************************************************************)
MinSystolic == 76

MaxSystolic == 184

MinDiastolic == 46

MaxDiastolic == 124

\* absent, or a pressure on the half-unit grid between the two limits
HalfGrid(lo, hi) == {None} \cup {Some(Rat(k, 2)) : k \in (2 * lo)..(2 * hi)}

ScoreBpCalls ==
    {[fn |-> "_score_bp", args |-> <<s, d>>] :
        s \in HalfGrid(MinSystolic, MaxSystolic),
        d \in HalfGrid(MinDiastolic, MaxDiastolic)}

\* absent, or k / unit for k between the two limits
UnitGrid(lo, hi, unit) == {None} \cup {Some(Rat(k, unit)) : k \in lo..hi}

MinBmiTenths == 150

MaxBmiTenths == 410

ScoreBmiCalls ==
    {[fn |-> "_score_bmi", args |-> <<bmi>>] :
        bmi \in UnitGrid(MinBmiTenths, MaxBmiTenths, 10)}

MinA1cHundredths == 560

MaxA1cHundredths == 810

MinGlucose == 68

MaxGlucose == 201

A1cGrid == UnitGrid(MinA1cHundredths, MaxA1cHundredths, 100)

GlucoseGrid == UnitGrid(MinGlucose, MaxGlucose, 1)

ScoreGlucoseCalls ==
    {[fn |-> "_score_glucose", args |-> <<a1c, glucose>>] :
        a1c \in A1cGrid, glucose \in GlucoseGrid}

MinCreatinineHundredths == 110

MaxCreatinineHundredths == 210

MinBun == 33

MaxBun == 40

ScoreKidneyCalls ==
    {[fn |-> "_score_kidney", args |-> <<creatinine, bun>>] :
        creatinine \in UnitGrid(MinCreatinineHundredths, MaxCreatinineHundredths, 100),
        bun \in HalfGrid(MinBun, MaxBun)}

MinSpo2 == 88

MaxSpo2 == 100

ScoreSpo2Calls ==
    {[fn |-> "_score_spo2", args |-> <<spo2>>] : spo2 \in HalfGrid(MinSpo2, MaxSpo2)}

MinHemoglobin == 8

MaxHemoglobin == 19

MinWbc == 2

MaxWbc == 16

MinPlateletsFifties == 2

MaxPlateletsFifties == 12

\* absent, or a platelet count within one of a multiple of fifty
PlateletsGrid ==
    {None} \cup {Some(R(50 * k + j)) :
                    k \in MinPlateletsFifties..MaxPlateletsFifties, j \in {-1, 0, 1}}

HematologyCalls ==
    {[fn |-> "_hematology_component_scores", args |-> <<hemoglobin, wbc, platelets>>] :
        hemoglobin \in HalfGrid(MinHemoglobin, MaxHemoglobin),
        wbc \in HalfGrid(MinWbc, MaxWbc),
        platelets \in PlateletsGrid}

MinTrendQuarters == 476

MaxTrendQuarters == 506

\* the stable bands the readout passes: 3.0 blood pressure, 0.3 BMI, 1.0 SpO2
StableBands == {R(3), Rat(3, 10), R(1)}

\* trend inputs are on the quarter grid, where the float subtraction of
\* _trend_direction is exact
TrendDirectionCalls ==
    {[fn |-> "_trend_direction", args |-> <<latest, previous, stable_band>>] :
        latest \in UnitGrid(MinTrendQuarters, MaxTrendQuarters, 4),
        previous \in UnitGrid(MinTrendQuarters, MaxTrendQuarters, 4),
        stable_band \in StableBands}

ScorerNames ==
    {"_score_bp", "_score_bmi", "_score_glucose", "_score_kidney", "_score_spo2",
     "_hematology_component_scores", "_trend_direction"}

\* the calls of one function
ScorerCalls(fn) ==
    CASE fn = "_score_bp" -> ScoreBpCalls
      [] fn = "_score_bmi" -> ScoreBmiCalls
      [] fn = "_score_glucose" -> ScoreGlucoseCalls
      [] fn = "_score_kidney" -> ScoreKidneyCalls
      [] fn = "_score_spo2" -> ScoreSpo2Calls
      [] fn = "_hematology_component_scores" -> HematologyCalls
      [] fn = "_trend_direction" -> TrendDirectionCalls

InitScorers ==
    /\ subject_id \in SubjectIds
    /\ omr = EmptyHistory
    /\ labs = EmptyHistory
    /\ vitals = EmptyHistory
    /\ readout = None
    /\ \E fn \in ScorerNames : call \in {Some(c) : c \in ScorerCalls(fn)}
    /\ ret = None
    /\ NoRequest

\* the call that is pending: function fn called and not yet returned
Pending(fn) == call # None /\ Value(call).fn = fn /\ ret = None

CallScoreBp ==
    /\ call # None
    /\ Value(call).fn = "_score_bp"
    /\ ret = None
    /\ ret' = Some(_score_bp(Value(call).args[1], Value(call).args[2]))
    /\ UNCHANGED <<subject_id, omr, labs, vitals, readout, call>>
    /\ UNCHANGED request_vars

CallScoreBmi ==
    /\ Pending("_score_bmi")
    /\ ret' = Some(_score_bmi(Value(call).args[1]))
    /\ UNCHANGED <<subject_id, omr, labs, vitals, readout, call>>
    /\ UNCHANGED request_vars

CallScoreGlucose ==
    /\ Pending("_score_glucose")
    /\ ret' = Some(_score_glucose(Value(call).args[1], Value(call).args[2]))
    /\ UNCHANGED <<subject_id, omr, labs, vitals, readout, call>>
    /\ UNCHANGED request_vars

CallScoreKidney ==
    /\ Pending("_score_kidney")
    /\ ret' = Some(_score_kidney(Value(call).args[1], Value(call).args[2]))
    /\ UNCHANGED <<subject_id, omr, labs, vitals, readout, call>>
    /\ UNCHANGED request_vars

CallScoreSpo2 ==
    /\ Pending("_score_spo2")
    /\ ret' = Some(_score_spo2(Value(call).args[1]))
    /\ UNCHANGED <<subject_id, omr, labs, vitals, readout, call>>
    /\ UNCHANGED request_vars

CallHematologyComponentScores ==
    /\ Pending("_hematology_component_scores")
    /\ ret' = Some(_hematology_component_scores(Value(call).args[1],
                                                Value(call).args[2],
                                                Value(call).args[3]))
    /\ UNCHANGED <<subject_id, omr, labs, vitals, readout, call>>
    /\ UNCHANGED request_vars

CallTrendDirection ==
    /\ Pending("_trend_direction")
    /\ ret' = Some(_trend_direction(Value(call).args[1], Value(call).args[2],
                                    Value(call).args[3]))
    /\ UNCHANGED <<subject_id, omr, labs, vitals, readout, call>>
    /\ UNCHANGED request_vars

NextScorers ==
    \/ CallScoreBp
    \/ CallScoreBmi
    \/ CallScoreGlucose
    \/ CallScoreKidney
    \/ CallScoreSpo2
    \/ CallHematologyComponentScores
    \/ CallTrendDirection

SpecScorers == InitScorers /\ [][NextScorers]_vars

(***************************************************************************)
(* The database queries and summarize_patient.  A table is a set of rows;  *)
(* the join of labevents with d_labitems is folded into the label column   *)
(* of a labevents row, and columns that are only displayed (units, flags,  *)
(* reference ranges, admission details) are left out.                      *)
(***************************************************************************)
OMR_RESULT_NAMES ==
    <<"Blood Pressure", "BMI (kg/m2)", "Weight (Lbs)", "Height (Inches)">>

\* each entry is <<metric, labels>>, in the order of the dict
LAB_METRIC_LABELS ==
    << <<"creatinine", {"Creatinine"}>>,
       <<"bun", {"Urea Nitrogen"}>>,
       <<"glucose", {"Glucose"}>>,
       <<"a1c", {"% Hemoglobin A1c"}>>,
       <<"hemoglobin", {"Hemoglobin"}>>,
       <<"wbc", {"White Blood Cells"}>>,
       <<"platelets", {"Platelet Count"}>>,
       <<"sodium", {"Sodium"}>>,
       <<"potassium", {"Potassium"}>> >>

\* each entry is <<metric, itemids>>, in the order of the dict
VITAL_METRIC_ITEMIDS ==
    << <<"heart_rate", {220045}>>,
       <<"systolic_bp", {220050, 220179}>>,
       <<"diastolic_bp", {220051, 220180}>>,
       <<"resp_rate", {220210, 224690}>>,
       <<"spo2", {220277}>> >>

\* the keys of a dict given as a sequence of <<key, value>> entries
Keys(entries) == {entries[i][1] : i \in 1..Len(entries)}

\* the CASE expression of the lab and bedside queries: the metric of the
\* first entry that holds the key, NULL when no entry does
metric_of(entries, key) ==
    With({i \in 1..Len(entries) : key \in entries[i][2]}, LAMBDA hits :
        IF hits = {} THEN None
        ELSE Some(entries[CHOOSE i \in hits : \A j \in hits : i <= j][1]))

\* ORDER BY charttime DESC
RECURSIVE by_charttime_desc(_)
by_charttime_desc(rows) ==
    IF rows = {} THEN <<>>
    ELSE With(CHOOSE r \in rows : \A q \in rows : q.charttime <= r.charttime,
              LAMBDA r : <<r>> \o by_charttime_desc(rows \ {r}))

\* ORDER BY chartdate DESC, seq_num DESC
RECURSIVE by_chartdate_desc(_)
by_chartdate_desc(rows) ==
    IF rows = {} THEN <<>>
    ELSE With(CHOOSE r \in rows :
                  \A q \in rows : \/ q.chartdate < r.chartdate
                                  \/ q.chartdate = r.chartdate /\ q.seq_num <= r.seq_num,
              LAMBDA r : <<r>> \o by_chartdate_desc(rows \ {r}))

\* ORDER BY admittime DESC
RECURSIVE by_admittime_desc(_)
by_admittime_desc(rows) ==
    IF rows = {} THEN <<>>
    ELSE With(CHOOSE r \in rows : \A q \in rows : q.admittime <= r.admittime,
              LAMBDA r : <<r>> \o by_admittime_desc(rows \ {r}))

\* WHERE rn <= limit, of rows already ordered
first_rows(rows, limit) == SubSeq(rows, 1, Min(limit, Len(rows)))

_query_patient(patients, sid) ==
    IF \E p \in patients : p.subject_id = sid
    THEN Some(CHOOSE p \in patients : p.subject_id = sid)
    ELSE None

_query_admissions(admissions, sid) ==
    by_admittime_desc({[hadm_id |-> a.hadm_id, admittime |-> a.admittime] :
                          a \in {a \in admissions : a.subject_id = sid}})

\* the text of the warning of _select_admission for a requested hadm_id
not_found_warning(requested) ==
    <<"Requested hadm_id", requested,
      "was not found for this patient. Using the most recent admission instead.">>

\* _select_admission returning the FIRST admission also for a requested id
\* that is in the list
_select_admission_ignoring_request(admissions, requested) ==
    IF admissions = <<>> THEN <<None, None>>
    ELSE <<Some(admissions[1]), None>>

\* the pair (admission, warning)
_select_admission(admissions, requested) ==
    IF admissions = <<>> THEN <<None, None>>
    ELSE IF requested = None THEN <<Some(admissions[1]), None>>
    ELSE With({i \in 1..Len(admissions) : admissions[i].hadm_id = Value(requested)},
              LAMBDA hits :
             IF hits # {}
             THEN <<Some(admissions[CHOOSE i \in hits : \A j \in hits : i <= j]), None>>
             ELSE <<Some(admissions[1]), Some(not_found_warning(Value(requested)))>>)

_query_omr_history(omr_table, sid, limit) ==
    [name \in {OMR_RESULT_NAMES[i] : i \in 1..Len(OMR_RESULT_NAMES)} |->
        first_rows(by_chartdate_desc(
            {[result_name |-> r.result_name, chartdate |-> r.chartdate,
              seq_num |-> r.seq_num, result_value |-> r.result_value] :
                r \in {r \in omr_table : r.subject_id = sid /\ r.result_name = name}}),
            limit)]

\* _query_lab_history that leaves the episode filter out
_query_lab_history_unfiltered(labevents, sid, episode, limit) ==
    [metric \in Keys(LAB_METRIC_LABELS) |->
        first_rows(by_charttime_desc(
            {[metric |-> metric, hadm_id |-> r.hadm_id, charttime |-> r.charttime,
              label |-> r.label, valuenum |-> r.valuenum] :
                r \in {r \in labevents :
                          /\ r.subject_id = sid
                          /\ r.valuenum # None
                          /\ metric_of(LAB_METRIC_LABELS, r.label) = Some(metric)}}),
            limit)]

_query_lab_history(labevents, sid, episode, limit) ==
    [metric \in Keys(LAB_METRIC_LABELS) |->
        first_rows(by_charttime_desc(
            {[metric |-> metric, hadm_id |-> r.hadm_id, charttime |-> r.charttime,
              label |-> r.label, valuenum |-> r.valuenum] :
                r \in {r \in labevents :
                          /\ r.subject_id = sid
                          /\ r.valuenum # None
                          /\ metric_of(LAB_METRIC_LABELS, r.label) = Some(metric)
                          /\ (episode # None => r.hadm_id = episode)}}),
            limit)]

_query_vital_history(chartevents, sid, episode, limit) ==
    [metric \in Keys(VITAL_METRIC_ITEMIDS) |->
        first_rows(by_charttime_desc(
            {[metric |-> metric, hadm_id |-> r.hadm_id, stay_id |-> r.stay_id,
              charttime |-> r.charttime, itemid |-> r.itemid,
              valuenum |-> r.valuenum] :
                r \in {r \in chartevents :
                          /\ r.subject_id = sid
                          /\ r.valuenum # None
                          /\ metric_of(VITAL_METRIC_ITEMIDS, r.itemid) = Some(metric)
                          /\ (episode # None => r.hadm_id = episode)}}),
            limit)]

LAB_DISPLAY_NAMES ==
    [metric \in Keys(LAB_METRIC_LABELS) |->
        CASE metric = "creatinine" -> "Creatinine"
          [] metric = "bun" -> "Urea Nitrogen"
          [] metric = "glucose" -> "Glucose"
          [] metric = "a1c" -> "Hemoglobin A1c"
          [] metric = "hemoglobin" -> "Hemoglobin"
          [] metric = "wbc" -> "White Blood Cells"
          [] metric = "platelets" -> "Platelet Count"
          [] metric = "sodium" -> "Sodium"
          [] metric = "potassium" -> "Potassium"]

VITAL_DISPLAY_NAMES ==
    [metric \in Keys(VITAL_METRIC_ITEMIDS) |->
        CASE metric = "heart_rate" -> "Heart Rate"
          [] metric = "systolic_bp" -> "Systolic Blood Pressure"
          [] metric = "diastolic_bp" -> "Diastolic Blood Pressure"
          [] metric = "resp_rate" -> "Respiratory Rate"
          [] metric = "spo2" -> "SpO2"]

\* output.sort(key=charttime, reverse=True): one step of the stable sort,
\* the row goes behind the rows that are as late or later
RECURSIVE insert_by_charttime(_, _)
insert_by_charttime(sorted, row) ==
    IF sorted = <<>> THEN <<row>>
    ELSE IF Head(sorted).charttime >= row.charttime
    THEN <<Head(sorted)>> \o insert_by_charttime(Tail(sorted), row)
    ELSE <<row>> \o sorted

RECURSIVE sort_by_charttime(_)
sort_by_charttime(rows) ==
    IF rows = <<>> THEN <<>>
    ELSE insert_by_charttime(sort_by_charttime(SubSeq(rows, 1, Len(rows) - 1)),
                             rows[Len(rows)])

\* the metrics of a history that have rows, in the order of the dict
metrics_with_rows(history, entries) ==
    SelectSeq([i \in 1..Len(entries) |-> entries[i][1]],
              LAMBDA metric : Get(history, metric) # <<>>)

_normalize_latest_labs(labs_h) ==
    With(metrics_with_rows(labs_h, LAB_METRIC_LABELS), LAMBDA metrics :
        sort_by_charttime(
            [i \in 1..Len(metrics) |->
                [metric |-> metrics[i],
                 display_name |-> LAB_DISPLAY_NAMES[metrics[i]],
                 label |-> labs_h[metrics[i]][1].label,
                 value |-> labs_h[metrics[i]][1].valuenum,
                 charttime |-> labs_h[metrics[i]][1].charttime,
                 hadm_id |-> labs_h[metrics[i]][1].hadm_id]]))

_normalize_latest_vitals(vitals_h) ==
    With(metrics_with_rows(vitals_h, VITAL_METRIC_ITEMIDS), LAMBDA metrics :
        sort_by_charttime(
            [i \in 1..Len(metrics) |->
                [metric |-> metrics[i],
                 display_name |-> VITAL_DISPLAY_NAMES[metrics[i]],
                 value |-> vitals_h[metrics[i]][1].valuenum,
                 charttime |-> vitals_h[metrics[i]][1].charttime,
                 hadm_id |-> vitals_h[metrics[i]][1].hadm_id,
                 stay_id |-> vitals_h[metrics[i]][1].stay_id]]))

(***************************************************************************)
(* summarize_patient as a state machine over a small database: the patient *)
(* is looked up, the admission selected, the three histories queried, and  *)
(* the readout built and returned with the latest labs and vitals.         *)
(***************************************************************************)
OtherSubjectId == 10000048

PatientRow(sid) == [subject_id |-> sid]

AdmissionRow(sid, id, admittime) ==
    [subject_id |-> sid, hadm_id |-> id, admittime |-> admittime]

\* the admissions tables: none of the patient, one, two, and two with one
\* of another patient that is the latest of all
AdmissionTables ==
    {{AdmissionRow(OtherSubjectId, 23, 3)},
     {AdmissionRow(10000032, 21, 1)},
     {AdmissionRow(10000032, 21, 1), AdmissionRow(10000032, 22, 2)},
     {AdmissionRow(10000032, 21, 1), AdmissionRow(10000032, 22, 2),
      AdmissionRow(OtherSubjectId, 23, 3)}}

\* the hadm_id a request names: none, one of the patient's, another patient's
RequestedHadmIds == {None, Some(21), Some(22), Some(23)}

LabEventRow(sid, episode, charttime, label, valuenum) ==
    [subject_id |-> sid, hadm_id |-> episode, charttime |-> charttime,
     label |-> label, valuenum |-> valuenum]

\* creatinine in each admission and outside any, and a glucose of another
\* patient
LabEventPool ==
    {LabEventRow(10000032, Some(21), 1, "Creatinine", Some(R(1))),
     LabEventRow(10000032, Some(22), 2, "Creatinine", Some(Rat(24, 10))),
     LabEventRow(10000032, None, 3, "Creatinine", Some(Rat(15, 10))),
     LabEventRow(OtherSubjectId, Some(23), 4, "Glucose", Some(R(250)))}

ChartEventRow(sid, episode, charttime, itemid, valuenum) ==
    [subject_id |-> sid, hadm_id |-> episode, stay_id |-> 30 + Value(episode),
     charttime |-> charttime, itemid |-> itemid, valuenum |-> valuenum]

\* SpO2 in each admission, and a systolic pressure in the later one
ChartEventPool ==
    {ChartEventRow(10000032, Some(21), 1, 220277, Some(R(93))),
     ChartEventRow(10000032, Some(22), 2, 220277, Some(R(97))),
     ChartEventRow(10000032, Some(22), 3, 220179, Some(R(150)))}

OmrTableRow(sid, name, chartdate, text) ==
    [subject_id |-> sid, result_name |-> name, chartdate |-> chartdate,
     seq_num |-> 1, result_value |-> Some(text)]

\* an outpatient pressure and an outpatient BMI, both outside any admission
OmrPool ==
    {OmrTableRow(10000032, "Blood Pressure", 1, <<"1", "3", "5", "/", "8", "5">>),
     OmrTableRow(10000032, "BMI (kg/m2)", 2, <<"2", "7", ".", "4">>)}

Databases ==
    {[patients |-> p, admissions |-> a, omr |-> o, labevents |-> l, chartevents |-> c] :
        p \in {{PatientRow(10000032)}, {PatientRow(OtherSubjectId)}},
        a \in AdmissionTables,
        o \in SUBSET OmrPool,
        l \in SUBSET LabEventPool,
        c \in SUBSET ChartEventPool}

InitSummarize ==
    /\ subject_id \in SubjectIds
    /\ database \in {Some(d) : d \in Databases}
    /\ hadm_id \in RequestedHadmIds
    /\ omr = EmptyHistory
    /\ labs = EmptyHistory
    /\ vitals = EmptyHistory
    /\ readout = None
    /\ call = None
    /\ ret = None
    /\ selected = None
    /\ pc = "patient"
    /\ invocations = <<>>

\* if not patient: return CallToolResult(isError=True, ...)
PatientNotFound ==
    /\ pc = "patient"
    /\ _query_patient(Value(database).patients, subject_id) = None
    /\ ret' = Some([isError |-> TRUE])
    /\ pc' = "done"
    /\ UNCHANGED <<subject_id, omr, labs, vitals, readout, call,
                   database, hadm_id, selected, invocations>>

\* selected_admission, warning = _select_admission(admissions, hadm_id)
SelectAdmission ==
    /\ pc = "patient"
    /\ _query_patient(Value(database).patients, subject_id) # None
    /\ selected' = Some(_select_admission(
                       _query_admissions(Value(database).admissions, subject_id),
                       hadm_id))
    /\ pc' = "histories"
    /\ UNCHANGED <<subject_id, omr, labs, vitals, readout, call, ret,
                   database, hadm_id, invocations>>

\* selected_admission["hadm_id"] if selected_admission else None
selected_hadm_id ==
    IF Value(selected)[1] # None THEN Some(Value(Value(selected)[1]).hadm_id) ELSE None

\* the three history queries
QueryHistories ==
    /\ pc = "histories"
    /\ omr' = _query_omr_history(Value(database).omr, subject_id, per_metric)
    /\ labs' = _query_lab_history(Value(database).labevents, subject_id,
                                  selected_hadm_id, per_metric)
    /\ vitals' = _query_vital_history(Value(database).chartevents, subject_id,
                                      selected_hadm_id, per_metric)
    /\ pc' = "readout"
    /\ UNCHANGED <<subject_id, readout, call, ret,
                   database, hadm_id, selected, invocations>>

\* the readout, the latest labs and vitals, and the result returned
ReturnSummary ==
    /\ pc = "readout"
    /\ readout' = Some(_build_readout(subject_id, omr, labs, vitals))
    /\ ret' = Some([isError |-> FALSE,
                    selected_admission |-> Value(selected)[1],
                    warning |-> Value(selected)[2],
                    latest_labs |-> _normalize_latest_labs(labs),
                    latest_vitals |-> _normalize_latest_vitals(vitals)])
    /\ pc' = "done"
    /\ UNCHANGED <<subject_id, omr, labs, vitals, call,
                   database, hadm_id, selected, invocations>>

NextSummarize ==
    \/ PatientNotFound
    \/ SelectAdmission
    \/ QueryHistories
    \/ ReturnSummary

SpecSummarize == InitSummarize /\ [][NextSummarize]_vars

(***************************************************************************)
(* Invocations side by side: two invocations of the pipeline run on the    *)
(* histories of one request, a step of one between the steps of the other. *)
(* An invocation appends its six cards one at a time to its own list,      *)
(* aggregates them, and normalizes the latest labs and the latest vitals.  *)
(***************************************************************************)
Invocations == {1, 2}

\* the metric a card reads first, by the position of the card
first_metric_read ==
    <<"Blood Pressure", "BMI (kg/m2)", "a1c", "creatinine", "spo2", "hemoglobin">>

\* what a read that takes the latest row out of the list leaves
history_after_latest_popped(history, metric) ==
    IF Get(history, metric) # <<>>
    THEN [history EXCEPT ![metric] = Tail(@)]
    ELSE history

\* what _latest leaves of the history it reads: rows[0] is read, the list
\* is not changed
history_after_latest(history, metric) == history

\* the locals of an invocation that has not started
started ==
    [pc |-> "cards", cards |-> <<>>, readout |-> None,
     latest_labs |-> None, latest_vitals |-> None]

\* the databases of the requests that run side by side: the patient with
\* two admissions
SideBySideDatabases ==
    {d \in Databases :
        /\ d.patients = {PatientRow(10000032)}
        /\ d.admissions = {AdmissionRow(10000032, 21, 1), AdmissionRow(10000032, 22, 2)}
        /\ d.omr \in {{}, OmrPool}
        /\ d.chartevents \in {{}, ChartEventPool}}

\* the state after the three history queries of a request, with two
\* invocations about to run on the histories
InitSideBySide ==
    /\ subject_id \in SubjectIds
    /\ database \in {Some(d) : d \in SideBySideDatabases}
    /\ hadm_id \in {None, Some(21)}
    /\ selected = Some(_select_admission(
                      _query_admissions(Value(database).admissions, subject_id),
                      hadm_id))
    /\ omr = _query_omr_history(Value(database).omr, subject_id, per_metric)
    /\ labs = _query_lab_history(Value(database).labevents, subject_id,
                                 selected_hadm_id, per_metric)
    /\ vitals = _query_vital_history(Value(database).chartevents, subject_id,
                                     selected_hadm_id, per_metric)
    /\ readout = None
    /\ call = None
    /\ ret = None
    /\ pc = "side by side"
    /\ invocations = [i \in Invocations |-> started]

\* cards.append({...}) of the next card of invocation i
AppendCard(i) ==
    /\ pc = "side by side"
    /\ invocations[i].pc = "cards"
    /\ LET k == Len(invocations[i].cards) + 1
       IN  /\ invocations' =
                  [invocations EXCEPT
                      ![i].cards = Append(@, build_cards(omr, labs, vitals)[k]),
                      ![i].pc = IF k = 6 THEN "aggregate" ELSE "cards"]
           /\ omr' = IF k \in {1, 2}
                     THEN history_after_latest(omr, first_metric_read[k]) ELSE omr
           /\ labs' = IF k \in {3, 4, 6}
                      THEN history_after_latest(labs, first_metric_read[k]) ELSE labs
           /\ vitals' = IF k = 5
                        THEN history_after_latest(vitals, first_metric_read[k]) ELSE vitals
    /\ UNCHANGED <<subject_id, readout, call, ret, database, hadm_id, selected, pc>>

\* the overall score, the concerns and the dict returned by invocation i
Aggregate(i) ==
    /\ pc = "side by side"
    /\ invocations[i].pc = "aggregate"
    /\ invocations' =
           [invocations EXCEPT
               ![i].readout = Some(readout_of_cards(subject_id, invocations[i].cards,
                                                    omr, labs, vitals)),
               ![i].pc = "latest_labs"]
    /\ UNCHANGED <<subject_id, omr, labs, vitals, readout, call, ret,
                   database, hadm_id, selected, pc>>

\* latest_labs = _normalize_latest_labs(lab_history) of invocation i
NormalizeLatestLabs(i) ==
    /\ pc = "side by side"
    /\ invocations[i].pc = "latest_labs"
    /\ invocations' =
           [invocations EXCEPT
               ![i].latest_labs = Some(_normalize_latest_labs(labs)),
               ![i].pc = "latest_vitals"]
    /\ labs' = history_after_latest(labs, "creatinine")
    /\ UNCHANGED <<subject_id, omr, vitals, readout, call, ret,
                   database, hadm_id, selected, pc>>

\* latest_vitals = _normalize_latest_vitals(vital_history) of invocation i
NormalizeLatestVitals(i) ==
    /\ pc = "side by side"
    /\ invocations[i].pc = "latest_vitals"
    /\ invocations' =
           [invocations EXCEPT
               ![i].latest_vitals = Some(_normalize_latest_vitals(vitals)),
               ![i].pc = "done"]
    /\ vitals' = history_after_latest(vitals, "spo2")
    /\ UNCHANGED <<subject_id, omr, labs, readout, call, ret,
                   database, hadm_id, selected, pc>>

NextSideBySide ==
    \E i \in Invocations :
        \/ AppendCard(i)
        \/ Aggregate(i)
        \/ NormalizeLatestLabs(i)
        \/ NormalizeLatestVitals(i)

SpecSideBySide == InitSideBySide /\ [][NextSideBySide]_vars

(***************************************************************************)
(* Properties of the readout                                               *)
(***************************************************************************)
CardIds ==
    <<"blood_pressure", "body_composition", "glucose_control",
      "kidney_function", "oxygenation", "hematology">>

\* the sum of the scores of the six cards of a readout
SixScoreSum(r) ==
    r.cards[1].score + r.cards[2].score + r.cards[3].score
    + r.cards[4].score + r.cards[5].score + r.cards[6].score

\* C1: overall_score is the mean of the scores of exactly six cards, rounded
\* to the nearest integer (a tie to the even one); a card without data has
\* score 50 and is counted in the mean, and when all six cards are without
\* data the overall score is 50.
C1_OverallScoreIsRoundedMeanOfSix ==
    readout # None =>
        LET r == Value(readout)
            diff == 6 * r.overall_score - SixScoreSum(r)
        IN  /\ Len(r.cards) = 6
            /\ diff \in -3..3
            /\ (Abs(diff) = 3 => r.overall_score % 2 = 0)
            /\ \A i \in 1..6 : r.cards[i].status = "unknown" => r.cards[i].score = 50
            /\ ((\A i \in 1..6 : r.cards[i].status = "unknown")
                    => r.overall_score = 50)

\* a readout with a card without data beside cards with data, whose mean is
\* a tie between two integers
C1_Witness ==
    /\ readout # None
    /\ \E i, j \in 1..6 : /\ Value(readout).cards[i].status = "unknown"
                          /\ Value(readout).cards[j].status # "unknown"
    /\ SixScoreSum(Value(readout)) % 6 = 3

\* C2: overall_status is the threshold function of overall_score: good from
\* 85, needs-attention from 65 to 84, high-risk below 65; never unknown.
C2_OverallStatusFromThresholds ==
    readout # None =>
        LET r == Value(readout)
        IN  /\ r.overall_score >= 85 => r.overall_status = "good"
            /\ (r.overall_score >= 65 /\ r.overall_score < 85)
                   => r.overall_status = "needs-attention"
            /\ r.overall_score < 65 => r.overall_status = "high-risk"
            /\ r.overall_status # "unknown"

\* a readout whose overall score is exactly on the lower threshold while one
\* of its cards is without data
C2_Witness ==
    /\ readout # None
    /\ Value(readout).overall_score = 65
    /\ Value(readout).overall_status = "needs-attention"
    /\ \E i \in 1..6 : Value(readout).cards[i].status = "unknown"

\* the positions of the cards of a readout that are concerns
ConcernPositions(r) ==
    {i \in 1..Len(r.cards) : r.cards[i].status \in {"needs-attention", "high-risk"}}

\* concern i is listed before concern j: a lower score, or the same score
\* and an earlier card
ListedBefore(r, i, j) ==
    \/ r.cards[i].score < r.cards[j].score
    \/ r.cards[i].score = r.cards[j].score /\ i < j

\* how many concerns are listed before concern i
RankOf(r, i) == Cardinality({j \in ConcernPositions(r) : ListedBefore(r, j, i)})

\* C3: insights holds the insight of every concern card (status
\* needs-attention or high-risk) in ascending order of score, cards of equal
\* score in card order, cut to the first 4.
C3_InsightsAreRankedConcerns ==
    readout # None =>
        LET r == Value(readout)
            concerns == ConcernPositions(r)
        IN  /\ Len(r.insights) = Min(4, Cardinality(concerns))
            /\ \A i \in concerns :
                   RankOf(r, i) < 4 => r.insights[RankOf(r, i) + 1] = r.cards[i].insight

\* a readout with more than four concerns, two of them with the same score,
\* whose worst concern is not its first card
C3_Witness ==
    /\ readout # None
    /\ Cardinality(ConcernPositions(Value(readout))) > 4
    /\ \E i, j \in ConcernPositions(Value(readout)) :
           i < j /\ Value(readout).cards[i].score = Value(readout).cards[j].score
    /\ \E i, j \in ConcernPositions(Value(readout)) :
           i < j /\ Value(readout).cards[j].score < Value(readout).cards[i].score

\* C4: the cards list holds exactly the six cards in the order
\* blood_pressure, body_composition, glucose_control, kidney_function,
\* oxygenation, hematology, whatever the histories and whatever the order of
\* the insights.
C4_SixCardsInFixedOrder ==
    readout # None =>
        /\ Len(Value(readout).cards) = 6
        /\ \A i \in 1..6 : Value(readout).cards[i].id = CardIds[i]

\* a readout from partial histories whose insights are not in card order
C4_Witness ==
    /\ readout # None
    /\ \E i \in 1..6 : Value(readout).cards[i].status = "unknown"
    /\ \E i, j \in ConcernPositions(Value(readout)) :
           i < j /\ Value(readout).cards[j].score < Value(readout).cards[i].score
    /\ Value(readout).insights # <<>>

\* C5: every card score and the overall score are integers from 0 to 100.
C5_ScoresWithinRange ==
    readout # None =>
        /\ Value(readout).overall_score \in 0..100
        /\ \A i \in 1..Len(Value(readout).cards) :
               Value(readout).cards[i].score \in 0..100

\* a readout whose cards reach from the lowest to the highest score a scorer
\* gives
C5_Witness ==
    /\ readout # None
    /\ \E i, j \in 1..6 : /\ Value(readout).cards[i].score = 25
                          /\ Value(readout).cards[j].score = 94

\* a history with no row for any metric: its keys map to empty lists, or it
\* has no keys at all
NoRows(history) == \A metric \in DOMAIN history : history[metric] = <<>>

\* the latest outpatient blood-pressure text gives no systolic/diastolic pair
NoOutpatientPair ==
    LET rows == Get(omr, "Blood Pressure")
    IN  rows = <<>> \/ _parse_bp(rows[1].result_value) = <<None, None>>

\* the latest outpatient text of a result name is missing or gives no number
NoOutpatientNumber(name) ==
    LET rows == Get(omr, name)
    IN  rows = <<>> \/ _as_float_text(rows[1].result_value) = None

\* the latest outpatient height is a number above zero
PositiveHeight ==
    /\ ~ NoOutpatientNumber("Height (Inches)")
    /\ Value(_as_float_text(Get(omr, "Height (Inches)")[1].result_value)).n > 0

\* the card at position i of the readout is the no-data card
IsNoDataCard(i) ==
    /\ Value(readout).cards[i].score = 50
    /\ Value(readout).cards[i].status = "unknown"

\* C6: a domain without a qualifying sample has score 50 and status unknown:
\* blood pressure when the outpatient reading gives no pair and the bedside
\* systolic or diastolic is missing; body composition when there is no BMI
\* and none can be derived; glucose when A1c and glucose are absent; kidney
\* when creatinine is absent; oxygenation when SpO2 is absent; hematology
\* when hemoglobin, WBC and platelets are all absent.
C6_NoSampleGivesUnknown50 ==
    readout # None =>
        /\ (NoOutpatientPair /\ (Get(vitals, "systolic_bp") = <<>>
                                 \/ Get(vitals, "diastolic_bp") = <<>>))
               => IsNoDataCard(1)
        /\ (NoOutpatientNumber("BMI (kg/m2)")
            /\ (NoOutpatientNumber("Weight (Lbs)") \/ ~ PositiveHeight))
               => IsNoDataCard(2)
        /\ (Get(labs, "a1c") = <<>> /\ Get(labs, "glucose") = <<>>)
               => IsNoDataCard(3)
        /\ Get(labs, "creatinine") = <<>> => IsNoDataCard(4)
        /\ Get(vitals, "spo2") = <<>> => IsNoDataCard(5)
        /\ (Get(labs, "hemoglobin") = <<>> /\ Get(labs, "wbc") = <<>>
            /\ Get(labs, "platelets") = <<>>)
               => IsNoDataCard(6)

\* a readout for a patient with an unreadable outpatient pressure, a bedside
\* systolic without a diastolic, and a BUN without a creatinine
C6_Witness ==
    /\ readout # None
    /\ Get(omr, "Blood Pressure") # <<>> /\ NoOutpatientPair
    /\ Get(vitals, "systolic_bp") # <<>> /\ Get(vitals, "diastolic_bp") = <<>>
    /\ Get(labs, "bun") # <<>> /\ Get(labs, "creatinine") = <<>>
    /\ IsNoDataCard(1) /\ IsNoDataCard(4)
    /\ \E i \in 1..6 : ~ IsNoDataCard(i)

\* C7: on three histories without any row (empty lists, or no keys at all)
\* _build_readout returns a readout, and its six cards all have status
\* unknown and score 50.
C7_EmptyHistoriesGiveAllUnknown ==
    (NoRows(omr) /\ NoRows(labs) /\ NoRows(vitals) /\ call = None) =>
        IF readout = None THEN ENABLED BuildReadout
        ELSE /\ Len(Value(readout).cards) = 6
             /\ \A i \in 1..6 : IsNoDataCard(i)

\* the readout built from three histories that have no keys at all
C7_Witness ==
    /\ omr = EmptyHistory /\ labs = EmptyHistory /\ vitals = EmptyHistory
    /\ readout # None
    /\ \A i \in 1..6 : IsNoDataCard(i)

(***************************************************************************)
(* Properties of _score_bp                                                 *)
(***************************************************************************)
IsScoreBpReturn == ret # None /\ call # None /\ Value(call).fn = "_score_bp"

\* the float x is at least the integer k / below the integer k
AtLeast(x, k) == Value(x).n >= k * Value(x).d

Below(x, k) == Value(x).n < k * Value(x).d

\* C9: _score_bp returns the result of the first rule that matches, in the
\* order: a value missing 50 unknown; systolic >= 180 or diastolic >= 120
\* 25 high-risk; systolic < 80 or diastolic < 50 35 high-risk; systolic >=
\* 140 or diastolic >= 90 55 high-risk; systolic >= 130 or diastolic >= 80
\* 70 needs-attention; systolic >= 120 and diastolic < 80 82
\* needs-attention; systolic < 90 or diastolic < 60 65 needs-attention;
\* otherwise 94 good.
C9_ScoreBpFirstMatchingRule ==
    IsScoreBpReturn =>
        LET s == Value(call).args[1]
            d == Value(call).args[2]
            got == <<Value(ret)[1], Value(ret)[2]>>
        IN  got = IF s = None \/ d = None THEN <<50, "unknown">>
                  ELSE IF AtLeast(s, 180) \/ AtLeast(d, 120) THEN <<25, "high-risk">>
                  ELSE IF Below(s, 80) \/ Below(d, 50) THEN <<35, "high-risk">>
                  ELSE IF AtLeast(s, 140) \/ AtLeast(d, 90) THEN <<55, "high-risk">>
                  ELSE IF AtLeast(s, 130) \/ AtLeast(d, 80)
                  THEN <<70, "needs-attention">>
                  ELSE IF AtLeast(s, 120) /\ Below(d, 80) THEN <<82, "needs-attention">>
                  ELSE IF Below(s, 90) \/ Below(d, 60) THEN <<65, "needs-attention">>
                  ELSE <<94, "good">>

\* the return for a reading that two rules match, systolic >= 120 with
\* diastolic < 60: the earlier rule decides
C9_Witness ==
    /\ IsScoreBpReturn
    /\ Value(call).args = <<Some(R(125)), Some(R(55))>>
    /\ Value(ret)[1] = 82

IsCallOn120Over80 ==
    IsScoreBpReturn /\ Value(call).args = <<Some(R(120)), Some(R(80))>>

\* C10 as stated: a reading of 120/80 is scored 94 with status good.
C10_Reading120Over80IsGood ==
    IsCallOn120Over80 => (Value(ret)[1] = 94 /\ Value(ret)[2] = "good")

\* C10 as amended: a reading of 120/80 is scored 70 with status
\* needs-attention, since diastolic 80 is within the stage-1 rule
\* (systolic >= 130 or diastolic >= 80).
C10_Reading120Over80IsStage1 ==
    IsCallOn120Over80 => (Value(ret)[1] = 70 /\ Value(ret)[2] = "needs-attention")

\* the return of _score_bp for 120/80
C10_Witness == IsCallOn120Over80 /\ Value(ret)[1] = 70

(***************************************************************************)
(* Properties of the other scorers                                         *)
(***************************************************************************)
\* function fn was called and has returned
IsReturnOf(fn) == ret # None /\ call # None /\ Value(call).fn = fn

\* the float x is below / at most / above / at least the number n / d
BelowQ(x, n, d) == Value(x).n * d < n * Value(x).d

AtMostQ(x, n, d) == Value(x).n * d <= n * Value(x).d

AboveQ(x, n, d) == ~AtMostQ(x, n, d)

AtLeastQ(x, n, d) == ~BelowQ(x, n, d)

\* C11: _score_bmi returns 50 unknown for a missing BMI, and otherwise
\* bmi < 16 40; 16 <= bmi < 18.5 64; 18.5 <= bmi < 25 94 good; 25 <= bmi <
\* 30 78 needs-attention; 30 <= bmi < 35 60; 35 <= bmi < 40 50; bmi >= 40
\* 40; every upper bound is exclusive, so 24.9 is 94 good and 25.0 is 78
\* needs-attention.
C11_ScoreBmiBands ==
    IsReturnOf("_score_bmi") =>
        LET bmi == Value(call).args[1]
            score == Value(ret)[1]
            status == Value(ret)[2]
        IN  /\ score = IF bmi = None THEN 50
                       ELSE IF BelowQ(bmi, 16, 1) THEN 40
                       ELSE IF BelowQ(bmi, 37, 2) THEN 64
                       ELSE IF BelowQ(bmi, 25, 1) THEN 94
                       ELSE IF BelowQ(bmi, 30, 1) THEN 78
                       ELSE IF BelowQ(bmi, 35, 1) THEN 60
                       ELSE IF BelowQ(bmi, 40, 1) THEN 50
                       ELSE 40
            /\ bmi = None => status = "unknown"
            /\ score = 94 => status = "good"
            /\ score = 78 => status = "needs-attention"
            /\ bmi = Some(Rat(249, 10)) => (score = 94 /\ status = "good")
            /\ bmi = Some(R(25)) => (score = 78 /\ status = "needs-attention")

\* the return of _score_bmi for a BMI of exactly 25
C11_Witness ==
    /\ IsReturnOf("_score_bmi")
    /\ Value(call).args = <<Some(R(25))>>
    /\ Value(ret)[1] = 78

\* C12: whenever an A1c value is present the result of _score_glucose has
\* basis "a1c", and the call with the same A1c and any other glucose value,
\* or none, returns the same score, status, insight and basis.
C12_A1cPresentIgnoresGlucose ==
    (IsReturnOf("_score_glucose") /\ Value(call).args[1] # None) =>
        /\ Value(ret)[4] = "a1c"
        /\ \A glucose \in GlucoseGrid :
               _score_glucose(Value(call).args[1], glucose) = Value(ret)

\* the return for an A1c in the prediabetes band with a glucose value that
\* alone would be high-risk
C12_Witness ==
    /\ IsReturnOf("_score_glucose")
    /\ Value(call).args = <<Some(R(6)), Some(R(200))>>
    /\ Value(ret)[1] = 78
    /\ Value(ret)[4] = "a1c"

\* C13: _score_glucose returns, with A1c present, a1c < 5.7 94 good; 5.7 <=
\* a1c < 6.5 78 needs-attention; 6.5 <= a1c < 8.0 60 high-risk; a1c >= 8.0
\* 45 high-risk (5.69 is good, 5.70 needs-attention); with A1c absent and
\* glucose present, glucose < 70 40 high-risk; 70 <= glucose <= 140 88
\* good; 140 < glucose <= 199 70 needs-attention; glucose > 199 48
\* high-risk; with both absent 50 unknown.
C13_ScoreGlucoseBands ==
    IsReturnOf("_score_glucose") =>
        LET a1c == Value(call).args[1]
            glucose == Value(call).args[2]
            got == <<Value(ret)[1], Value(ret)[2]>>
        IN  /\ got = IF a1c # None
                     THEN IF BelowQ(a1c, 57, 10) THEN <<94, "good">>
                          ELSE IF BelowQ(a1c, 65, 10) THEN <<78, "needs-attention">>
                          ELSE IF BelowQ(a1c, 8, 1) THEN <<60, "high-risk">>
                          ELSE <<45, "high-risk">>
                     ELSE IF glucose = None THEN <<50, "unknown">>
                     ELSE IF BelowQ(glucose, 70, 1) THEN <<40, "high-risk">>
                     ELSE IF AtMostQ(glucose, 140, 1) THEN <<88, "good">>
                     ELSE IF AtMostQ(glucose, 199, 1) THEN <<70, "needs-attention">>
                     ELSE <<48, "high-risk">>
            /\ a1c = Some(Rat(569, 100)) => got[2] = "good"
            /\ a1c = Some(Rat(570, 100)) => got[2] = "needs-attention"

\* the return for an A1c of exactly 5.70 with no glucose value
C13_Witness ==
    /\ IsReturnOf("_score_glucose")
    /\ Value(call).args = <<Some(Rat(57, 10)), None>>
    /\ Value(ret)[1] = 78

\* C14: _score_kidney returns 50 unknown when creatinine is absent, whatever
\* the BUN; otherwise creatinine <= 1.3 90 good, 1.3 < creatinine <= 2.0 72
\* needs-attention, creatinine > 2.0 50 high-risk; and when BUN is present
\* and above 35 the score is lowered by 8, not below 35, and a good status
\* becomes needs-attention while the other statuses are kept (creatinine 1.2
\* with BUN 40 gives 82 needs-attention); a BUN of at most 35, or none,
\* changes nothing.
C14_ScoreKidneyBandsAndBunAdjustment ==
    IsReturnOf("_score_kidney") =>
        LET creatinine == Value(call).args[1]
            bun == Value(call).args[2]
            got == <<Value(ret)[1], Value(ret)[2]>>
            base == IF AtMostQ(creatinine, 13, 10) THEN <<90, "good">>
                    ELSE IF AtMostQ(creatinine, 2, 1) THEN <<72, "needs-attention">>
                    ELSE <<50, "high-risk">>
        IN  /\ got = IF creatinine = None THEN <<50, "unknown">>
                     ELSE IF bun # None /\ AboveQ(bun, 35, 1)
                     THEN <<IF base[1] - 8 < 35 THEN 35 ELSE base[1] - 8,
                            IF base[2] = "good" THEN "needs-attention" ELSE base[2]>>
                     ELSE base
            /\ (creatinine = Some(Rat(12, 10)) /\ bun = Some(R(40)))
                   => got = <<82, "needs-attention">>

\* the return for a creatinine of 1.2 with a BUN of 40
C14_Witness ==
    /\ IsReturnOf("_score_kidney")
    /\ Value(call).args = <<Some(Rat(12, 10)), Some(R(40))>>
    /\ Value(ret)[1] = 82
    /\ Value(ret)[2] = "needs-attention"

\* C15: _score_spo2 returns 50 unknown for a missing value; spo2 >= 95 92
\* good; 90 <= spo2 < 95 70 needs-attention; spo2 < 90 45 high-risk; so 94
\* gives 70 needs-attention and 95 gives 92 good.
C15_ScoreSpo2Bands ==
    IsReturnOf("_score_spo2") =>
        LET spo2 == Value(call).args[1]
            got == <<Value(ret)[1], Value(ret)[2]>>
        IN  /\ got = IF spo2 = None THEN <<50, "unknown">>
                     ELSE IF AtLeastQ(spo2, 95, 1) THEN <<92, "good">>
                     ELSE IF AtLeastQ(spo2, 90, 1) THEN <<70, "needs-attention">>
                     ELSE <<45, "high-risk">>
            /\ spo2 = Some(R(94)) => got = <<70, "needs-attention">>
            /\ spo2 = Some(R(95)) => got = <<92, "good">>

\* the return of _score_spo2 for a saturation of exactly 95
C15_Witness ==
    /\ IsReturnOf("_score_spo2")
    /\ Value(call).args = <<Some(R(95))>>
    /\ Value(ret)[1] = 92

\* the sub-scores of the hematology values that are present
SubScores(args) ==
    LET components == hematology_components(args[1], args[2], args[3])
    IN  [i \in 1..Len(components) |-> components[i][2]]

\* the number of values of args that are present
Present(args) == Cardinality({i \in 1..Len(args) : args[i] # None})

\* score is the mean of subs rounded to the nearest integer, a tie to the
\* even one
IsRoundedMean(score, subs) ==
    LET n == Len(subs)
        sum == SumSeq(subs)
    IN  /\ 2 * Abs(n * score - sum) <= n
        /\ 2 * Abs(n * score - sum) = n => score % 2 = 0

\* C16: with at least one of hemoglobin, WBC and platelets present, the
\* hematology score is the rounded mean of the 45/70/90 sub-scores of the
\* present components only, and the status is high-risk if a sub-score is
\* at most 50, otherwise needs-attention if a sub-score is below 85,
\* otherwise good: the sub-scores decide the status, not the mean; with all
\* three absent the result is 50 unknown.
C16_HematologyMeanAndWorstStatus ==
    IsReturnOf("_hematology_component_scores") =>
        LET args == Value(call).args
            subs == SubScores(args)
            score == Value(ret)[1]
            status == Value(ret)[2]
        IN  IF Present(args) = 0
            THEN score = 50 /\ status = "unknown"
            ELSE /\ Len(subs) = Present(args)
                 /\ \A i \in 1..Len(subs) : subs[i] \in {45, 70, 90}
                 /\ IsRoundedMean(score, subs)
                 /\ status = IF \E i \in 1..Len(subs) : subs[i] <= 50
                             THEN "high-risk"
                             ELSE IF \E i \in 1..Len(subs) : subs[i] < 85
                             THEN "needs-attention"
                             ELSE "good"

\* the return for a low hemoglobin with normal WBC and platelets: the mean
\* is 75, in the needs-attention band, and the status is high-risk
C16_Witness ==
    /\ IsReturnOf("_hematology_component_scores")
    /\ Value(call).args = <<Some(Rat(19, 2)), Some(R(5)), Some(R(200))>>
    /\ Value(ret)[1] = 75
    /\ Value(ret)[2] = "high-risk"

\* C17: _trend_direction returns (no-trend, null) if latest or previous is
\* absent; otherwise the delta returned is latest - previous and the
\* direction is stable when |delta| <= stable_band (the band is inclusive),
\* up when delta > stable_band and down when delta < -stable_band; with
\* band 3.0, 122 against 120 is stable and 126 against 120 is up with
\* delta 6.
C17_TrendDirectionBand ==
    IsReturnOf("_trend_direction") =>
        LET latest == Value(call).args[1]
            previous == Value(call).args[2]
            band == Value(call).args[3]
            direction == Value(ret)[1]
            delta == Value(ret)[2]
        IN  IF latest = None \/ previous = None
            THEN direction = "no-trend" /\ delta = None
            ELSE LET l == Value(latest)
                     p == Value(previous)
                     \* latest - previous = num / den, with den > 0
                     num == l.n * p.d - p.n * l.d
                     den == l.d * p.d
                 IN  /\ delta # None
                     /\ Value(delta).n * den = num * Value(delta).d
                     /\ direction = "stable" <=> Abs(num) * band.d <= band.n * den
                     /\ direction = "up" <=> num * band.d > band.n * den
                     /\ direction = "down" <=> num * band.d < (-band.n) * den
                     /\ (l = R(122) /\ p = R(120) /\ band = R(3))
                            => direction = "stable"
                     /\ (l = R(126) /\ p = R(120) /\ band = R(3))
                            => (direction = "up" /\ Value(delta) = R(6))

\* the return for a rise of exactly the band: 123 against 120 with band 3.0
C17_Witness ==
    /\ IsReturnOf("_trend_direction")
    /\ Value(call).args = <<Some(R(123)), Some(R(120)), R(3)>>
    /\ Value(ret) = <<"stable", Some(R(3))>>

(***************************************************************************)
(* Properties of the sources of the readout                                *)
(***************************************************************************)
\* the systolic/diastolic pair of the latest outpatient blood-pressure row
OutpatientPair ==
    LET rows == Get(omr, "Blood Pressure")
    IN  IF rows = <<>> THEN <<None, None>> ELSE _parse_bp(rows[1].result_value)

\* the score and status of the card at position i of the readout
ScoreAndStatus(i) == <<Value(readout).cards[i].score, Value(readout).cards[i].status>>

\* the score and status _score_bp gives a pair
BpScoreAndStatus(systolic, diastolic) ==
    <<_score_bp(systolic, diastolic)[1], _score_bp(systolic, diastolic)[2]>>

\* C18: the outpatient blood pressure is tried first: when its latest
\* reading gives a systolic/diastolic pair, that pair is scored and the
\* source is "OMR"; only when it gives none, and the bedside systolic and
\* diastolic are both there, the bedside pair is scored and the source is
\* "ICU vitals"; the two values scored never come from different sources.
C18_BloodPressureSourcePriority ==
    readout # None =>
        LET pair == OutpatientPair
            systolic_rows == Get(vitals, "systolic_bp")
            diastolic_rows == Get(vitals, "diastolic_bp")
            card == Value(readout).cards[1]
        IN  /\ (pair[1] = None) <=> (pair[2] = None)
            /\ IF pair[1] # None
               THEN /\ card.source = "OMR"
                    /\ ScoreAndStatus(1) = BpScoreAndStatus(pair[1], pair[2])
               ELSE IF systolic_rows # <<>> /\ diastolic_rows # <<>>
               THEN /\ card.source = "ICU vitals"
                    /\ ScoreAndStatus(1) = BpScoreAndStatus(systolic_rows[1].valuenum,
                                                            diastolic_rows[1].valuenum)
               ELSE /\ card.source = "OMR"
                    /\ ScoreAndStatus(1) = <<50, "unknown">>

\* a readout where the latest outpatient text holds a systolic without a
\* usable diastolic and both bedside values are there: the bedside pair
\* 85/55 is scored
C18_Witness ==
    /\ readout # None
    /\ Get(omr, "Blood Pressure") # <<>>
    /\ Get(omr, "Blood Pressure")[1].result_value = Some(<<"1", "2", "0", "/", "8">>)
    /\ Get(vitals, "systolic_bp") # <<>> /\ Get(vitals, "diastolic_bp") # <<>>
    /\ Value(readout).cards[1].source = "ICU vitals"
    /\ Value(readout).cards[1].score = 65

\* the latest outpatient row of a result name is there
HasOutpatientRow(name) == Get(omr, name) # <<>>

\* the text of the latest outpatient row of a result name
OutpatientText(name) == Value(Get(omr, name)[1].result_value)

\* text holds no digit at all
HasNoDigit(text) == \A i \in 1..Len(text) : ~ IsDigit(text[i])

\* the latest outpatient weight and height give numbers, the height above 0
WeightAndHeightUsable ==
    ~ NoOutpatientNumber("Weight (Lbs)") /\ PositiveHeight

\* the BMI derived from the latest outpatient weight and height
DerivedBmi ==
    LET weight_lbs == Value(_as_float_text(Get(omr, "Weight (Lbs)")[1].result_value))
        height_inches == Value(_as_float_text(Get(omr, "Height (Inches)")[1].result_value))
    IN  Some(Div(Mul(weight_lbs, R(703)), Mul(height_inches, height_inches)))

\* the latest outpatient blood-pressure row is there and gives no pair
UnparseablePressure == HasOutpatientRow("Blood Pressure") /\ NoOutpatientPair

\* the latest outpatient BMI row is there and gives no number
UnparseableBmi == HasOutpatientRow("BMI (kg/m2)") /\ NoOutpatientNumber("BMI (kg/m2)")

\* C19 as stated: an outpatient sample whose text cannot be parsed gets the
\* value null, and the affected domain always has score 50 and status
\* unknown.
C19_UnparseableTextAlwaysDegrades ==
    readout # None =>
        /\ UnparseablePressure => IsNoDataCard(1)
        /\ UnparseableBmi => IsNoDataCard(2)

\* C19 as amended: an outpatient text without a digit gives null from both
\* parsers, the call still returns a readout of six cards, and the affected
\* domain has score 50 and status unknown unless its fallback supplies the
\* value: for blood pressure the bedside systolic and diastolic, which are
\* then scored; for body composition the BMI derived from a usable weight
\* and a height above zero, which is then scored.
C19_UnparseableTextDegradesOrFallsBack ==
    /\ \A name \in DOMAIN omr :
           (HasOutpatientRow(name) /\ HasNoDigit(OutpatientText(name)))
               => /\ _as_float_text(Some(OutpatientText(name))) = None
                  /\ _parse_bp(Some(OutpatientText(name))) = <<None, None>>
    /\ (readout = None /\ call = None /\ (UnparseablePressure \/ UnparseableBmi))
           => Len(_build_readout(subject_id, omr, labs, vitals).cards) = 6
    /\ (readout # None /\ UnparseablePressure) =>
           IF Get(vitals, "systolic_bp") # <<>> /\ Get(vitals, "diastolic_bp") # <<>>
           THEN ScoreAndStatus(1) = BpScoreAndStatus(Get(vitals, "systolic_bp")[1].valuenum,
                                                     Get(vitals, "diastolic_bp")[1].valuenum)
           ELSE IsNoDataCard(1)
    /\ (readout # None /\ UnparseableBmi) =>
           IF WeightAndHeightUsable
           THEN ScoreAndStatus(2) = <<_score_bmi(DerivedBmi)[1], _score_bmi(DerivedBmi)[2]>>
           ELSE IsNoDataCard(2)

\* a readout where the BMI text is "n/a" and the BMI derived from 180 lbs
\* and 70 inches, 25.8, is scored 78
C19_Witness ==
    /\ readout # None
    /\ UnparseableBmi
    /\ HasNoDigit(OutpatientText("BMI (kg/m2)"))
    /\ WeightAndHeightUsable
    /\ ScoreAndStatus(2) = <<78, "needs-attention">>

(***************************************************************************)
(* Properties of the no-data results                                       *)
(***************************************************************************)
\* the call is one whose metric is missing entirely: no systolic or no
\* diastolic, no BMI, neither A1c nor glucose, no creatinine, no SpO2, none
\* of hemoglobin, WBC and platelets
IsCallWithoutMetric ==
    /\ call # None
    /\ LET fn == Value(call).fn
           args == Value(call).args
       IN  \/ fn = "_score_bp" /\ (args[1] = None \/ args[2] = None)
           \/ fn = "_score_bmi" /\ args[1] = None
           \/ fn = "_score_glucose" /\ args[1] = None /\ args[2] = None
           \/ fn = "_score_kidney" /\ args[1] = None
           \/ fn = "_score_spo2" /\ args[1] = None
           \/ fn = "_hematology_component_scores"
              /\ args[1] = None /\ args[2] = None /\ args[3] = None

\* the score, status and insight returned
ReturnedTriple == <<Value(ret)[1], Value(ret)[2], Value(ret)[3]>>

\* the insight each scorer gives without its metric
NoDataInsight(fn) ==
    CASE fn = "_score_bp" -> "No recent blood pressure data."
      [] fn = "_score_bmi" -> "No recent BMI data."
      [] fn = "_score_glucose" -> "No recent glucose markers."
      [] fn = "_score_kidney" -> "No recent kidney markers."
      [] fn = "_score_spo2" -> "No recent oxygen saturation values."
      [] fn = "_hematology_component_scores" -> "No recent hematology markers."

\* C20 as stated: when a metric is missing entirely the domain scorer
\* returns (50, unknown, "No recent data.").
C20_NoDataInsightIsGeneric ==
    (ret # None /\ IsCallWithoutMetric)
        => ReturnedTriple = <<50, "unknown", "No recent data.">>

\* C20 as amended: when a metric is missing entirely the domain scorer
\* returns score 50, status unknown and the no-data insight of its own
\* domain: "No recent blood pressure data.", "No recent BMI data.", "No
\* recent glucose markers.", "No recent kidney markers.", "No recent oxygen
\* saturation values." or "No recent hematology markers.".
C20_NoDataInsightNamesTheDomain ==
    (ret # None /\ IsCallWithoutMetric)
        => ReturnedTriple = <<50, "unknown", NoDataInsight(Value(call).fn)>>

\* the return of _score_bp for a systolic without a diastolic
C20_Witness ==
    /\ ret # None
    /\ IsCallWithoutMetric
    /\ Value(call).fn = "_score_bp"
    /\ Value(call).args = <<Some(R(120)), None>>
    /\ ReturnedTriple = <<50, "unknown", "No recent blood pressure data.">>

(***************************************************************************)
(* Properties of the concerns                                              *)
(***************************************************************************)
\* the positions of the cards of readout r whose status is not good
NotGoodPositions(r) == {i \in 1..Len(r.cards) : r.cards[i].status # "good"}

\* the insight of the card at position i of r is in the insights list
IsSurfaced(r, i) == \E k \in 1..Len(r.insights) : r.insights[k] = r.cards[i].insight

\* C21 as stated: every card whose status is not good is surfaced in the
\* insights list, subject only to the cap of 4 entries.
C21_EveryNotGoodCardIsSurfaced ==
    readout # None =>
        LET r == Value(readout)
        IN  /\ Len(r.insights) = Min(4, Cardinality(NotGoodPositions(r)))
            /\ Cardinality(NotGoodPositions(r)) <= 4
                   => \A i \in NotGoodPositions(r) : IsSurfaced(r, i)

\* C21 as amended: every card whose status is needs-attention or high-risk
\* is a concern and is surfaced in the insights list, subject only to the
\* cap of 4 entries; a card whose status is unknown is not good and is not
\* a concern: it is never surfaced, and every entry of the list is the
\* insight of a concern.
C21_ConcernsExcludeUnknownCards ==
    readout # None =>
        LET r == Value(readout)
        IN  /\ Len(r.insights) = Min(4, Cardinality(ConcernPositions(r)))
            /\ Cardinality(ConcernPositions(r)) <= 4
                   => \A i \in ConcernPositions(r) : IsSurfaced(r, i)
            /\ \A i \in 1..Len(r.cards) :
                   r.cards[i].status = "unknown" => ~ IsSurfaced(r, i)
            /\ \A k \in 1..Len(r.insights) :
                   \E i \in ConcernPositions(r) : r.insights[k] = r.cards[i].insight

\* a readout with an unknown card, a concern and at most four cards that are
\* not good: the concern is listed, the unknown card is not
C21_Witness ==
    /\ readout # None
    /\ Cardinality(NotGoodPositions(Value(readout))) <= 4
    /\ \E i \in NotGoodPositions(Value(readout)) :
           /\ Value(readout).cards[i].status = "unknown"
           /\ ~ IsSurfaced(Value(readout), i)
    /\ \E i \in ConcernPositions(Value(readout)) : IsSurfaced(Value(readout), i)

(***************************************************************************)
(* Properties of the episode filter                                        *)
(***************************************************************************)
\* the histories have been queried for a patient that was found
HistoriesQueried == pc \in {"readout", "done"} /\ selected # None

\* the rows of a history, of all its metrics
RowsOf(history) ==
    UNION {{history[metric][i] : i \in 1..Len(history[metric])} :
              metric \in DOMAIN history}

\* the rows of a table of the patient with a value, within the episode
EpisodeRows(table, episode) ==
    {r \in table : r.subject_id = subject_id /\ r.valuenum # None
                   /\ r.hadm_id = episode}

\* C22: when an episode filter is applied, the lab and bedside histories
\* hold only rows of that episode, and hold each of its rows (the tables
\* have at most per_metric rows of a metric in an episode); the filter is
\* the id of the selected admission; the outpatient history holds the
\* patient's outpatient rows whatever the episode.
C22_EpisodeFilterOnLabsAndVitalsOnly ==
    HistoriesQueried =>
        /\ selected_hadm_id # None =>
               /\ \A row \in RowsOf(labs) \cup RowsOf(vitals) :
                      row.hadm_id = selected_hadm_id
               /\ \A r \in EpisodeRows(Value(database).labevents, selected_hadm_id) :
                      \E row \in RowsOf(labs) :
                          row.charttime = r.charttime /\ row.label = r.label
               /\ \A r \in EpisodeRows(Value(database).chartevents, selected_hadm_id) :
                      \E row \in RowsOf(vitals) :
                          row.charttime = r.charttime /\ row.itemid = r.itemid
        /\ \A r \in Value(database).omr :
               r.subject_id = subject_id =>
                   \E row \in RowsOf(omr) :
                       /\ row.result_name = r.result_name
                       /\ row.chartdate = r.chartdate
                       /\ row.result_value = r.result_value

\* the histories of a request for admission 21 of a patient with creatinine
\* in admission 21, in admission 22 and outside any admission: the lab
\* history holds the one row of admission 21, the outpatient history its row
C22_Witness ==
    /\ HistoriesQueried
    /\ selected_hadm_id = Some(21)
    /\ Cardinality({r \in Value(database).labevents : r.subject_id = subject_id}) = 3
    /\ Len(labs["creatinine"]) = 1
    /\ labs["creatinine"][1].hadm_id = Some(21)
    /\ Len(omr["Blood Pressure"]) = 1

(***************************************************************************)
(* Properties of _select_admission                                         *)
(***************************************************************************)
\* the admissions of the patient, as _select_admission receives them
PatientAdmissions == _query_admissions(Value(database).admissions, subject_id)

\* the requested hadm_id is the id of one of the patient's admissions
RequestMatches ==
    hadm_id # None
    /\ \E i \in 1..Len(PatientAdmissions) : PatientAdmissions[i].hadm_id = Value(hadm_id)

\* C30: _select_admission returns (none, no warning) for an empty list;
\* otherwise an element of the list: the first, which is the most recent,
\* without warning when no hadm_id is requested; the matching admission
\* without warning when the requested hadm_id is in the list; the first
\* with a warning when it is not; a warning is returned if and only if a
\* hadm_id was requested and matches no admission of a non-empty list.
C30_SelectAdmissionCases ==
    selected # None =>
        LET admission == Value(selected)[1]
            warning == Value(selected)[2]
            admissions == PatientAdmissions
        IN  /\ admissions = <<>> => (admission = None /\ warning = None)
            /\ admissions # <<>> =>
                   /\ admission # None
                   /\ \E i \in 1..Len(admissions) : admissions[i] = Value(admission)
                   /\ \A i \in 1..Len(admissions) :
                          admissions[i].admittime <= admissions[1].admittime
                   /\ hadm_id = None => Value(admission) = admissions[1]
                   /\ RequestMatches => Value(admission).hadm_id = Value(hadm_id)
                   /\ (hadm_id # None /\ ~ RequestMatches)
                          => Value(admission) = admissions[1]
            /\ warning # None
                   <=> (admissions # <<>> /\ hadm_id # None /\ ~ RequestMatches)

\* the selection for a request that names the admission of another patient,
\* of a patient with two admissions: the later one, with a warning
C30_Witness ==
    /\ selected # None
    /\ hadm_id = Some(23)
    /\ Len(PatientAdmissions) = 2
    /\ Value(Value(selected)[1]).hadm_id = 22
    /\ Value(selected)[2] # None

(***************************************************************************)
(* Rounding of the means                                                   *)
(***************************************************************************)
\* the sub-scores of the hematology components whose latest value is present
LatestSubScores ==
    LET components ==
            hematology_components(valuenum_of(_latest(labs, "hemoglobin")),
                                  valuenum_of(_latest(labs, "wbc")),
                                  valuenum_of(_latest(labs, "platelets")))
    IN  [i \in 1..Len(components) |-> components[i][2]]

\* the mean of xs has fractional part exactly one half
IsTie(xs) == 2 * (SumSeq(xs) % Len(xs)) = Len(xs)

\* result is the mean of xs rounded to the nearest integer, and the even
\* neighbour when the mean is a tie
IsHalfEvenMean(result, xs) ==
    LET floor == SumSeq(xs) \div Len(xs)
        twice == 2 * (SumSeq(xs) % Len(xs))
    IN  /\ twice < Len(xs) => result = floor
        /\ twice > Len(xs) => result = floor + 1
        /\ twice = Len(xs) => result = IF floor % 2 = 0 THEN floor ELSE floor + 1

\* C24: every fractional mean is rounded half-to-even: the overall score is
\* the mean of the six card scores, and the hematology score the mean of the
\* present sub-scores, rounded to the nearest integer, and to the even
\* neighbouring integer when the fractional part is exactly one half.
C24_MeansRoundHalfToEven ==
    readout # None =>
        /\ IsHalfEvenMean(Value(readout).overall_score, Scores(Value(readout).cards))
        /\ LatestSubScores # <<>>
               => IsHalfEvenMean(Value(readout).cards[6].score, LatestSubScores)

\* card scores 65, 94, 94, 90, 70, 70: the mean 80.5 gives overall score 80
C24_Witness ==
    /\ readout # None
    /\ Scores(Value(readout).cards) = <<65, 94, 94, 90, 70, 70>>
    /\ Value(readout).overall_score = 80

\* a hematology score that is a tie of two sub-scores
C24_HematologyTie ==
    /\ readout # None
    /\ LatestSubScores # <<>>
    /\ IsTie(LatestSubScores)

(***************************************************************************)
(* Properties of the body-composition card                                 *)
(***************************************************************************)
\* the number the latest outpatient BMI text gives
RecordedBmi == _as_float_text(Get(omr, "BMI (kg/m2)")[1].result_value)

\* C25: the body-composition card scores the recorded latest BMI whenever
\* its text gives a number; when the BMI is missing or gives no number, the
\* BMI weight*703/height^2 is scored if the latest weight gives a number and
\* the latest height a number above zero, and otherwise (height missing,
\* zero or negative, or no weight) nothing is derived, the readout is still
\* built and the card has score 50 and status unknown.
C25_RecordedBmiBeforeDerivedBmi ==
    readout # None =>
        /\ ~ NoOutpatientNumber("BMI (kg/m2)")
               => ScoreAndStatus(2) = <<_score_bmi(RecordedBmi)[1], _score_bmi(RecordedBmi)[2]>>
        /\ (NoOutpatientNumber("BMI (kg/m2)") /\ WeightAndHeightUsable)
               => ScoreAndStatus(2) = <<_score_bmi(DerivedBmi)[1], _score_bmi(DerivedBmi)[2]>>
        /\ (NoOutpatientNumber("BMI (kg/m2)") /\ ~ WeightAndHeightUsable)
               => IsNoDataCard(2)

\* a readout of a history without BMI whose weight is 180 lbs and whose
\* height is -70 inches: the card is the no-data card
C25_Witness ==
    /\ readout # None
    /\ ~ HasOutpatientRow("BMI (kg/m2)")
    /\ ~ NoOutpatientNumber("Weight (Lbs)")
    /\ ~ NoOutpatientNumber("Height (Inches)")
    /\ Value(_as_float_text(Get(omr, "Height (Inches)")[1].result_value)).n < 0
    /\ IsNoDataCard(2)

\* a readout where a recorded BMI is scored although weight and height
\* would give another one
C25_RecordedBmiWins ==
    /\ readout # None
    /\ ~ NoOutpatientNumber("BMI (kg/m2)")
    /\ WeightAndHeightUsable
    /\ RecordedBmi # DerivedBmi

(***************************************************************************)
(* Properties of the blood-pressure trend                                  *)
(***************************************************************************)
\* latest is more than 3.0 above previous
IsUp(latest, previous) == Gt(Sub(Value(latest), Value(previous)), R(3))

\* latest is more than 3.0 below previous
IsDown(latest, previous) == Lt(Sub(Value(latest), Value(previous)), R(-3))

\* the readings the blood-pressure card compares all have a value
AllFourPresent(r) ==
    r.bp_sys # None /\ r.bp_dia # None /\ r.prev_sys # None /\ r.prev_dia # None

\* C26: the trend of the blood-pressure card is no-trend unless the latest
\* and the previous systolic and diastolic are all present; it is stable
\* exactly when both components are within 3.0 of their previous value; up
\* whenever at least one component went up, even if the other went down;
\* down only when no component went up and at least one went down.
C26_PressureTrendCombinesComponents ==
    readout # None =>
        LET r == bp_reading(omr, vitals)
            trend == Value(readout).cards[1].trend
            sys_up == IsUp(r.bp_sys, r.prev_sys)
            dia_up == IsUp(r.bp_dia, r.prev_dia)
            sys_down == IsDown(r.bp_sys, r.prev_sys)
            dia_down == IsDown(r.bp_dia, r.prev_dia)
        IN  /\ trend \in {"no-trend", "stable", "up", "down"}
            /\ trend = "no-trend" <=> ~ AllFourPresent(r)
            /\ AllFourPresent(r) =>
                   /\ trend = "stable" <=> ~ (sys_up \/ dia_up \/ sys_down \/ dia_down)
                   /\ trend = "up" <=> (sys_up \/ dia_up)
                   /\ trend = "down" <=> (~ sys_up /\ ~ dia_up /\ (sys_down \/ dia_down))

\* a readout whose systolic went up from 130 to 140 while the diastolic went
\* down from 80 to 70: the trend is up
C26_Witness ==
    /\ readout # None
    /\ AllFourPresent(bp_reading(omr, vitals))
    /\ IsUp(bp_reading(omr, vitals).bp_sys, bp_reading(omr, vitals).prev_sys)
    /\ IsDown(bp_reading(omr, vitals).bp_dia, bp_reading(omr, vitals).prev_dia)
    /\ Value(readout).cards[1].trend = "up"

\* a readout whose systolic is exactly 3.0 above the previous one and whose
\* diastolic is 2.0 below: the trend is stable
C26_StableOnTheBand ==
    /\ readout # None
    /\ AllFourPresent(bp_reading(omr, vitals))
    /\ Sub(Value(bp_reading(omr, vitals).bp_sys), Value(bp_reading(omr, vitals).prev_sys)) = R(3)
    /\ Value(readout).cards[1].trend = "stable"

\* a readout whose systolic went down while the diastolic stayed: down
C26_DownWithOneStable ==
    /\ readout # None
    /\ AllFourPresent(bp_reading(omr, vitals))
    /\ IsDown(bp_reading(omr, vitals).bp_sys, bp_reading(omr, vitals).prev_sys)
    /\ bp_reading(omr, vitals).bp_dia = bp_reading(omr, vitals).prev_dia
    /\ Value(readout).cards[1].trend = "down"

(***************************************************************************)
(* Properties of the bedside fallback of the blood-pressure card           *)
(***************************************************************************)
\* the blood-pressure card falls back to the bedside pair: the latest
\* outpatient reading gives no pair and both bedside metrics have a row
FallsBackToBedside ==
    /\ NoOutpatientPair
    /\ Get(vitals, "systolic_bp") # <<>>
    /\ Get(vitals, "diastolic_bp") # <<>>

\* the value of the row at position i of the bedside rows of metric, none
\* when there is no such row
BedsideValue(metric, i) ==
    IF Len(Get(vitals, metric)) >= i THEN Get(vitals, metric)[i].valuenum ELSE None

\* the previous outpatient reading gives a systolic/diastolic pair
HasPreviousOutpatientPair ==
    /\ Len(Get(omr, "Blood Pressure")) >= 2
    /\ _parse_bp(Get(omr, "Blood Pressure")[2].result_value) # <<None, None>>

\* the trend between a latest and a previous pair of present values
TrendBetween(sys, dia, prev_sys, prev_dia) ==
    IF IsUp(sys, prev_sys) \/ IsUp(dia, prev_dia) THEN "up"
    ELSE IF IsDown(sys, prev_sys) \/ IsDown(dia, prev_dia) THEN "down"
    ELSE "stable"

\* C27: when the blood-pressure card falls back to the bedside pair, the
\* previous systolic and diastolic are the previous bedside rows, or absent,
\* whatever the previous outpatient reading is: the trend is the one between
\* the latest and the previous bedside values, and no-trend when a previous
\* bedside value is missing; when the latest outpatient reading gives a
\* pair, the card is the one built without any bedside row.
C27_FallbackTakesBedsidePrevious ==
    readout # None =>
        LET card == Value(readout).cards[1]
        IN  /\ FallsBackToBedside =>
                   /\ card.source = "ICU vitals"
                   /\ ScoreAndStatus(1) = BpScoreAndStatus(BedsideValue("systolic_bp", 1),
                                                           BedsideValue("diastolic_bp", 1))
                   /\ card.trend =
                          IF BedsideValue("systolic_bp", 2) = None
                             \/ BedsideValue("diastolic_bp", 2) = None
                          THEN "no-trend"
                          ELSE TrendBetween(BedsideValue("systolic_bp", 1),
                                            BedsideValue("diastolic_bp", 1),
                                            BedsideValue("systolic_bp", 2),
                                            BedsideValue("diastolic_bp", 2))
            /\ ~ NoOutpatientPair =>
                   /\ card.source = "OMR"
                   /\ card = blood_pressure_card(omr, EmptyHistory)

\* a readout that falls back to the bedside pair 85/55, where a previous
\* outpatient reading 122/78 exists and the previous bedside diastolic does
\* not: no trend
C27_Witness ==
    /\ readout # None
    /\ FallsBackToBedside
    /\ HasPreviousOutpatientPair
    /\ BedsideValue("systolic_bp", 2) # None
    /\ BedsideValue("diastolic_bp", 2) = None
    /\ Value(readout).cards[1].trend = "no-trend"

\* a readout that falls back to the bedside pair and takes the trend from
\* the previous bedside rows, beside a previous outpatient reading
C27_BedsideTrend ==
    /\ readout # None
    /\ FallsBackToBedside
    /\ HasPreviousOutpatientPair
    /\ Value(readout).cards[1].trend = "up"

\* a readout of a usable outpatient reading beside bedside rows
C27_BedsideIgnored ==
    /\ readout # None
    /\ ~ NoOutpatientPair
    /\ Get(vitals, "systolic_bp") # <<>>
    /\ Get(vitals, "diastolic_bp") # <<>>

(***************************************************************************)
(* Properties of the status of a card                                      *)
(***************************************************************************)
\* the status the thresholds give a score
ThresholdStatus(score) ==
    IF score >= 85 THEN "good" ELSE IF score >= 65 THEN "needs-attention" ELSE "high-risk"

\* the status of the card at position i of the readout is the one the
\* thresholds give its score
AgreesWithThresholds(i) ==
    Value(readout).cards[i].status = ThresholdStatus(Value(readout).cards[i].score)

\* C28: a blood_pressure, glucose_control or oxygenation card whose status
\* is not unknown has the status the thresholds give its own score: good
\* from 85, needs-attention from 65, high-risk below; the cards whose status
\* differs from that are body_composition, kidney_function or hematology
\* cards.
C28_StatusFollowsScoreOnThreeCards ==
    readout # None =>
        \A i \in 1..6 :
            (Value(readout).cards[i].status # "unknown" /\ ~ AgreesWithThresholds(i))
                => Value(readout).cards[i].id \in
                       {"body_composition", "kidney_function", "hematology"}

\* a readout whose blood_pressure, glucose_control and oxygenation cards
\* have data and whose kidney_function card needs attention with score 64
C28_Witness ==
    /\ readout # None
    /\ \A i \in {1, 3, 5} : Value(readout).cards[i].status # "unknown"
    /\ Value(readout).cards[1].id = "blood_pressure"
    /\ Value(readout).cards[3].id = "glucose_control"
    /\ Value(readout).cards[5].id = "oxygenation"
    /\ Value(readout).cards[4].id = "kidney_function"
    /\ ScoreAndStatus(4) = <<64, "needs-attention">>

\* the same of the returns of the scorers: _score_bp, _score_glucose and
\* _score_spo2 return the status the thresholds give the score they return
C28_ThreeScorersFollowThresholds ==
    (IsReturnOf("_score_bp") \/ IsReturnOf("_score_glucose") \/ IsReturnOf("_score_spo2"))
        => (Value(ret)[2] # "unknown" => Value(ret)[2] = ThresholdStatus(Value(ret)[1]))

\* returns of the other scorers whose status is not the one of the thresholds
C28_BmiDiffers ==
    IsReturnOf("_score_bmi") /\ Value(ret)[1] = 64 /\ Value(ret)[2] = "needs-attention"

C28_KidneyDiffers ==
    IsReturnOf("_score_kidney") /\ Value(ret)[1] = 64 /\ Value(ret)[2] = "needs-attention"

(***************************************************************************)
(* Properties of the cards without data                                    *)
(***************************************************************************)
\* the positions of the cards of the readout whose status is unknown
UnknownPositions == {i \in 1..6 : Value(readout).cards[i].status = "unknown"}

\* C29: a card whose status is unknown always has score 50 and never
\* contributes to insights; when all six cards are unknown the overall
\* score is 50, the overall status is high-risk (never unknown) and the
\* insights list is empty.
C29_UnknownCardsScoreFiftyAndStaySilent ==
    readout # None =>
        /\ \A i \in UnknownPositions :
               /\ Value(readout).cards[i].score = 50
               /\ \A k \in 1..Len(Value(readout).insights) :
                      Value(readout).insights[k] # Value(readout).cards[i].insight
        /\ Len(Value(readout).insights) <= 6 - Cardinality(UnknownPositions)
        /\ UnknownPositions = 1..6 =>
               /\ Value(readout).overall_score = 50
               /\ Value(readout).overall_status = "high-risk"
               /\ Value(readout).insights = <<>>

\* a readout of histories that hold rows, none of them usable: an
\* outpatient blood-pressure text without a pair; all six cards are unknown
C29_Witness ==
    /\ readout # None
    /\ UnknownPositions = 1..6
    /\ has_rows(omr)
    /\ Value(readout).overall_status = "high-risk"
    /\ Value(readout).insights = <<>>

\* a readout with unknown cards beside concerns that are listed
C29_UnknownBesideConcerns ==
    /\ readout # None
    /\ Cardinality(UnknownPositions) = 3
    /\ Len(Value(readout).insights) = 3

(***************************************************************************)
(* Properties of invocations side by side                                  *)
(***************************************************************************)
\* the histories the queries of the request return
QueriedOmr == _query_omr_history(Value(database).omr, subject_id, per_metric)

QueriedLabs ==
    _query_lab_history(Value(database).labevents, subject_id, selected_hadm_id, per_metric)

QueriedVitals ==
    _query_vital_history(Value(database).chartevents, subject_id, selected_hadm_id,
                         per_metric)

\* what an invocation that runs alone on the queried histories returns
AloneReadout == _build_readout(subject_id, QueriedOmr, QueriedLabs, QueriedVitals)

\* invocation i has returned
IsDone(i) == invocations[i].pc = "done"

\* C23: invocations of the pipeline share no mutable state: whatever steps
\* of two invocations have run, in whatever order, the input histories are
\* the ones that were queried, the cards an invocation has so far are the
\* first cards of the readout of an invocation that runs alone, and an
\* invocation that has returned has the readout, the latest labs and the
\* latest vitals of an invocation that runs alone.
C23_InvocationsDoNotInterfere ==
    pc = "side by side" =>
        /\ omr = QueriedOmr
        /\ labs = QueriedLabs
        /\ vitals = QueriedVitals
        /\ \A i \in Invocations :
               /\ invocations[i].cards
                      = SubSeq(AloneReadout.cards, 1, Len(invocations[i].cards))
               /\ invocations[i].readout # None
                      => Value(invocations[i].readout) = AloneReadout
               /\ IsDone(i) =>
                      /\ Value(invocations[i].latest_labs) = _normalize_latest_labs(QueriedLabs)
                      /\ Value(invocations[i].latest_vitals)
                             = _normalize_latest_vitals(QueriedVitals)

\* both invocations have returned, on histories with outpatient, lab and
\* bedside rows, the same readout with cards that have data
C23_Witness ==
    /\ pc = "side by side"
    /\ \A i \in Invocations : IsDone(i)
    /\ has_rows(omr) /\ has_rows(labs) /\ has_rows(vitals)
    /\ invocations[1].readout = invocations[2].readout
    /\ Value(invocations[1].readout).cards[1].status # "unknown"
    /\ Value(invocations[1].latest_labs) # <<>>

\* one invocation is between its cards while the other normalizes
C23_MidWay ==
    /\ pc = "side by side"
    /\ Len(invocations[1].cards) = 3
    /\ invocations[2].pc = "latest_vitals"
    /\ has_rows(labs)

====
